---- MODULE Spec2Model ----
(***************************************************************************)
(* Model of the validated-motion core of jubilee-automation:               *)
(*   src/MotionPlatformStateMachine.py  (registry, context, state machine) *)
(*   src/MovementExecutor.py            (executor routines it calls)       *)
(*   src/PistonDispenser.py, src/trickler_labware.py                       *)
(*                                                                         *)
(* One action per public operation of MotionPlatformStateMachine.  Each    *)
(* action records in the history variable `last` what was requested, the   *)
(* context before the call and how the call ended ("valid"/"invalid" for a *)
(* MoveValidationResult, "returned" for a None return, "raised" for an     *)
(* exception that reaches the caller).                                     *)
(***************************************************************************)
EXTENDS Integers, FiniteSets, Sequences, TLC

None == "None"

\* ------------------------------------------------------------------------
\* Bounds of the model
\* ------------------------------------------------------------------------
\* number of pistons loaded in dispenser 0 by initialize_dispensers
MaxPistons == 1

\* number of times the trickle loop of execute_dispense_powder is entered
MaxIterations == 3

\* ------------------------------------------------------------------------
\* Registry contents (the configuration document is an input of the program)
\* ------------------------------------------------------------------------
PositionIds == {"global_ready", "mold_ready_A1", "SCALE_READY", "dispenser_ready_0"}

\* identifiers a caller may name that the registry does not know
UnknownPositionIds == {"MOLD_READY"}

TargetIds == PositionIds \cup UnknownPositionIds

ZHeightIds == {"mold_transfer_safe", "dispenser_safe"}

\* the keys of PositionRegistry._z_heights: the classes callers set, and a
\* class configured at the zero of the z axis
ConfiguredZHeightIds == ZHeightIds \cup {"bed_level"}

ToolIds == {"manipulator"}

PayloadStates == {"mold_without_cap"}

WellIds == {"A1", "B1"}

NoPolicy == [allowed |-> {}, required |-> None]

\* MachineCoordinates: each axis is absent (None), a literal number, a
\* "PLACEHOLDER..." string or the string "USE_Z_HEIGHT_POLICY"
Unset == [kind |-> "none", value |-> 0]

Literal(n) == [kind |-> "literal", value |-> n]

Placeholder == [kind |-> "placeholder", value |-> 0]

UseZHeightPolicy == [kind |-> "use_z_height_policy", value |-> 0]


\* coordinates are in tenths of a millimetre; a declared coordinate is a
\* number, None, "PLACEHOLDER_*" or "USE_Z_HEIGHT_POLICY"
PositionDescriptor(id) ==
    CASE id = "global_ready" ->
           [identifier |-> id, type |-> "GLOBAL_READY",
            allowed_origins |-> {"mold_ready_A1", "SCALE_READY", "dispenser_ready_0"},
            allowed_destinations |-> {"mold_ready_A1", "SCALE_READY", "dispenser_ready_0"},
            has_coordinates |-> TRUE,
            coordinates |-> [x |-> Literal(0), y |-> Literal(0), z |-> UseZHeightPolicy, v |-> Literal(300)],
            requirements |-> {},
            z_height_policy |-> NoPolicy,
            allows_tool_engagement |-> FALSE,
            engagement_requirements |-> {}]
      [] id = "mold_ready_A1" ->
           [identifier |-> id, type |-> "MOLD_READY",
            allowed_origins |-> {"global_ready", "SCALE_READY"},
            allowed_destinations |-> {"global_ready", "SCALE_READY", "dispenser_ready_0"},
            has_coordinates |-> TRUE,
            coordinates |-> [x |-> Literal(100), y |-> Literal(200), z |-> UseZHeightPolicy, v |-> Literal(300)],
            requirements |-> {},
            z_height_policy |-> [allowed |-> {"mold_transfer_safe"}, required |-> None],
            allows_tool_engagement |-> FALSE,
            engagement_requirements |-> {}]
      [] id = "SCALE_READY" ->
           [identifier |-> id, type |-> "SCALE_READY",
            allowed_origins |-> {"global_ready", "mold_ready_A1", "dispenser_ready_0"},
            allowed_destinations |-> {"global_ready", "mold_ready_A1"},
            has_coordinates |-> TRUE,
            coordinates |-> [x |-> Placeholder, y |-> Literal(3000), z |-> Unset, v |-> Unset],
            requirements |-> {},
            z_height_policy |-> [allowed |-> {"mold_transfer_safe", "dispenser_safe"},
                                 required |-> None],
            allows_tool_engagement |-> TRUE,
            engagement_requirements |->
                {[key |-> "z_height_id", expected |-> {"dispenser_safe"}]}]
      [] id = "dispenser_ready_0" ->
           [identifier |-> id, type |-> "DISPENSER_READY",
            allowed_origins |-> {"global_ready"},
            allowed_destinations |-> {"global_ready", "mold_ready_A1"},
            has_coordinates |-> FALSE,
            coordinates |-> [x |-> Unset, y |-> Unset, z |-> Unset, v |-> Unset],
            requirements |-> {[key |-> "payload_state", expected |-> {"mold_without_cap"}]},
            z_height_policy |-> [allowed |-> {}, required |-> "dispenser_safe"],
            allows_tool_engagement |-> TRUE,
            engagement_requirements |-> {}]

ActionIds == {"home_all", "home_manipulator", "home_trickler", "pickup_tool",
              "park_tool", "retrieve_piston", "trickler_dispense"}

UnknownActionIds == {"home_xyz"}

RequestableActionIds == ActionIds \cup UnknownActionIds

NoAction == [position_scope |-> {}, requirements |-> {}, excludes |-> {},
             required_tool_id |-> None, requires_tool_engaged |-> FALSE,
             blocked_when_engaged |-> FALSE]

ActionDescriptor(id) ==
    CASE id = "home_all" ->
           [NoAction EXCEPT !.excludes = {[key |-> "active_tool_id", expected |-> {"manipulator"}]},
                            !.blocked_when_engaged = TRUE]
      [] id = "home_manipulator" ->
           [NoAction EXCEPT !.excludes = {[key |-> "payload_state", expected |-> {"mold_without_cap"}]}]
      [] id = "home_trickler" -> NoAction
      [] id = "pickup_tool" ->
           [NoAction EXCEPT !.position_scope = {"global_ready", "mold_ready_A1"},
                            !.excludes = {[key |-> "active_tool_id", expected |-> {"manipulator"}]},
                            !.blocked_when_engaged = TRUE]
      [] id = "park_tool" ->
           [NoAction EXCEPT !.position_scope = {"global_ready"},
                            !.required_tool_id = "manipulator",
                            !.blocked_when_engaged = TRUE]
      [] id = "retrieve_piston" ->
           [NoAction EXCEPT !.position_scope = {"dispenser_ready_0"},
                            !.required_tool_id = "manipulator",
                            !.requirements = {[key |-> "payload_state", expected |-> {"mold_without_cap"}]}]
      [] id = "trickler_dispense" ->
           [NoAction EXCEPT !.position_scope = {"SCALE_READY"},
                            !.requires_tool_engaged = TRUE]

\* PositionRegistry._z_heights and _coordinate_tolerance (tenths of a millimetre)
ZHeightCoordinate(z) ==
    IF z = "mold_transfer_safe" THEN 900 ELSE IF z = "dispenser_safe" THEN 2540 ELSE 0

CoordinateTolerance == 5

\* ------------------------------------------------------------------------
\* PositionRegistry lookups
\* ------------------------------------------------------------------------
RegistryHas(id) == id \in PositionIds

\* the first position of the type in the order the registry holds them
FindFirstOfType(type) ==
    IF type = "GLOBAL_READY" THEN "global_ready"
    ELSE IF type = "MOLD_READY" THEN "mold_ready_A1"
    ELSE IF type = "SCALE_READY" THEN "SCALE_READY"
    ELSE "dispenser_ready_0"

\* the methods PositionRegistry defines; attribute access to any other name
\* raises AttributeError
RegistryMethods == {"add_position", "get", "has", "find_first_of_type", "get_action",
                    "validateN_position"}

\* ------------------------------------------------------------------------
\* Pure helpers of the state machine
\* ------------------------------------------------------------------------
\* getattr(self.context, key, None)
GetAttr(ctx, key) == IF key \in DOMAIN ctx THEN ctx[key] ELSE None

\* _value_matches: a requirement value is held as the set of accepted values
\* (a scalar is the one-element set)
value_matches(actual, expected) == actual \in expected

\* _validate_requirements: None, or the issue
validate_requirements(ctx, requirements) ==
    IF \E r \in requirements : ~value_matches(GetAttr(ctx, r.key), r.expected)
    THEN "requirement" ELSE None

\* _validate_excludes: None, or the issue
validate_excludes(ctx, excludes) ==
    IF \E r \in excludes : value_matches(GetAttr(ctx, r.key), r.expected)
    THEN "exclude" ELSE None

\* ZHeightPolicy.validate: None, or the issue
ZHeightPolicy_validate(policy, z_height_id) ==
    IF (policy.required # None \/ policy.allowed # {}) /\ z_height_id = None
    THEN "z_height_not_set"
    ELSE IF policy.required # None /\ z_height_id # policy.required
    THEN "z_height_required"
    ELSE IF policy.allowed # {} /\ z_height_id \notin policy.allowed
    THEN "z_height_not_allowed"
    ELSE None

Abs(n) == IF n < 0 THEN -n ELSE n

\* the mismatch message of an axis: f"{axis.upper()} coordinate mismatch: ..."
CoordinateMismatch(axis) ==
    CASE axis = "x" -> "X coordinate mismatch"
      [] axis = "y" -> "Y coordinate mismatch"
      [] axis = "z" -> "Z coordinate mismatch"
      [] axis = "v" -> "V coordinate mismatch"

\* check_coord with the boundary of the tolerance band taken for a mismatch
check_coord_open_band(axis, expected, actual, current_z_height_id) ==
    CASE expected.kind = "none" -> None
      [] expected.kind = "placeholder" -> None
      [] expected.kind = "use_z_height_policy" ->
            IF current_z_height_id = None THEN "requires_z_height_id"
            ELSE IF current_z_height_id \notin ConfiguredZHeightIds THEN "unknown_z_height_id"
            ELSE LET z_expected == ZHeightCoordinate(current_z_height_id) IN
                 IF z_expected # 0 /\ Abs(actual - z_expected) >= CoordinateTolerance
                 THEN CoordinateMismatch(axis) ELSE None
      [] expected.kind = "literal" ->
            IF Abs(actual - expected.value) >= CoordinateTolerance
            THEN CoordinateMismatch(axis) ELSE None

\* check_coord that skips an axis derived from the z-height policy when no
\* z-height class is set
check_coord_unset_skipped(axis, expected, actual, current_z_height_id) ==
    CASE expected.kind = "none" -> None
      [] expected.kind = "placeholder" -> None
      [] expected.kind = "use_z_height_policy" ->
            IF current_z_height_id = None THEN None
            ELSE IF current_z_height_id \notin ConfiguredZHeightIds THEN "unknown_z_height_id"
            ELSE LET z_expected == ZHeightCoordinate(current_z_height_id) IN
                 IF z_expected # 0 /\ Abs(actual - z_expected) > CoordinateTolerance
                 THEN CoordinateMismatch(axis) ELSE None
      [] expected.kind = "literal" ->
            IF Abs(actual - expected.value) > CoordinateTolerance
            THEN CoordinateMismatch(axis) ELSE None

\* check_coord inside validateN_position: None, or the error of the axis
\* (every axis has the default tolerance)
check_coord(axis, expected, actual, current_z_height_id) ==
    CASE expected.kind = "none" -> None
      [] expected.kind = "placeholder" -> None
      [] expected.kind = "use_z_height_policy" ->
            IF current_z_height_id = None THEN "requires_z_height_id"
            ELSE IF current_z_height_id \notin ConfiguredZHeightIds THEN "unknown_z_height_id"
            ELSE LET z_expected == ZHeightCoordinate(current_z_height_id) IN
                 IF z_expected # 0 /\ Abs(actual - z_expected) > CoordinateTolerance
                 THEN CoordinateMismatch(axis) ELSE None
      [] expected.kind = "literal" ->
            IF Abs(actual - expected.value) > CoordinateTolerance
            THEN CoordinateMismatch(axis) ELSE None

\* PositionRegistry.validateN_position: None, or the error of the first
\* axis, in the order x, y, z, v, that has one
validateN_position(position_id, m, current_z_height_id) ==
    LET position == PositionDescriptor(position_id)
        x_error == check_coord("x", position.coordinates.x, m.X, current_z_height_id)
        y_error == check_coord("y", position.coordinates.y, m.Y, current_z_height_id)
        z_error == check_coord("z", position.coordinates.z, m.Z, current_z_height_id)
        v_error == check_coord("v", position.coordinates.v, m.V, current_z_height_id)
    IN
    IF ~position.has_coordinates THEN None
    ELSE IF x_error # None THEN x_error
    ELSE IF y_error # None THEN y_error
    ELSE IF z_error # None THEN z_error
    ELSE v_error

\* validate_machine_state as it would run with the registry method called by
\* the name it is defined under
validate_machine_state_resolved(ctx, m) ==
    IF validateN_position(ctx.position_id, m, ctx.z_height_id) # None
    THEN [result |-> "invalid", reason |-> "machine_state"]
    ELSE [result |-> "valid", reason |-> None]

\* validate_machine_state calls self._registry.validate_machine_position, a
\* name PositionRegistry does not define: the attribute lookup raises
\* AttributeError before any coordinate is compared
validate_machine_state(ctx, m) ==
    IF "validate_machine_position" \notin RegistryMethods
    THEN [result |-> "raised", reason |-> "AttributeError"]
    ELSE IF validateN_position(ctx.position_id, m, ctx.z_height_id) # None
    THEN [result |-> "invalid", reason |-> "machine_state"]
    ELSE [result |-> "valid", reason |-> None]

\* ------------------------------------------------------------------------
\* The transition table (python-statemachine): an event fired in a state
\* that has no such transition raises TransitionNotAllowed
\* ------------------------------------------------------------------------
States == {"idle", "moving", "tool_engaged"}

Events == {"begin_motion", "complete_motion", "engage_tool", "disengage_tool",
           "abort_motion"}

TransitionSource(event) ==
    CASE event = "begin_motion" -> "idle"
      [] event = "complete_motion" -> "moving"
      [] event = "engage_tool" -> "idle"
      [] event = "disengage_tool" -> "tool_engaged"
      [] event = "abort_motion" -> "moving"

TransitionTarget(event) ==
    CASE event = "begin_motion" -> "moving"
      [] event = "complete_motion" -> "idle"
      [] event = "engage_tool" -> "tool_engaged"
      [] event = "disengage_tool" -> "idle"
      [] event = "abort_motion" -> "idle"

\* on_enter_idle
on_enter_idle(ctx) == [ctx EXCEPT !.pending_move = None]

\* the outcome of self.<event>(): the exception raised (None when the
\* transition runs), the state and the context afterwards
Fire(event, st, ctx) ==
    IF event \notin Events
    THEN [exception |-> "AttributeError", state |-> st, context |-> ctx]
    ELSE IF st # TransitionSource(event)
    THEN [exception |-> "TransitionNotAllowed", state |-> st, context |-> ctx]
    ELSE [exception |-> None, state |-> TransitionTarget(event),
          context |-> IF TransitionTarget(event) = "idle" THEN on_enter_idle(ctx) ELSE ctx]

\* the requirements of a descriptor that forgets the fallback to the general
\* requirements
EngagementRequirementsOnly(position_id) ==
    PositionDescriptor(position_id).engagement_requirements

\* the requirements guarding an engagement at a position
EngagementRequirements(position_id) ==
    LET descriptor == PositionDescriptor(position_id) IN
    IF descriptor.engagement_requirements # {} THEN descriptor.engagement_requirements
    ELSE descriptor.requirements

\* _assert_engagement_exit_ready: TRUE when it raises RuntimeError
assert_engagement_exit_ready_raises(ctx) ==
    /\ ctx.engaged_ready_position_id # None
    /\ validate_requirements(ctx, EngagementRequirements(ctx.engaged_ready_position_id)) # None

\* complete_move(tool_still_engaged): the exception raised (None when it
\* returns), the state and the context afterwards
complete_move(st, ctx, tool_still_engaged) ==
    IF ctx.pending_move = None
    THEN [exception |-> "RuntimeError", state |-> st, context |-> ctx]
    ELSE IF ~RegistryHas(ctx.pending_move)
    THEN [exception |-> "KeyError", state |-> st, context |-> ctx]
    ELSE
      LET c1 == [ctx EXCEPT !.position_id = ctx.pending_move] IN
      IF tool_still_engaged
      THEN LET c2 == [c1 EXCEPT !.engaged_ready_position_id = ctx.pending_move,
                                !.engaged_tool_id =
                                    IF ctx.engaged_tool_id = None THEN ctx.active_tool_id
                                    ELSE ctx.engaged_tool_id]
               f == Fire("complete_motion_with_tool", st, c2) IN
           IF f.exception # None THEN f
           ELSE [f EXCEPT !.context.pending_move = None]
      ELSE IF assert_engagement_exit_ready_raises(c1)
      THEN [exception |-> "RuntimeError", state |-> st, context |-> c1]
      ELSE LET f == Fire("complete_motion", st, c1) IN
           IF f.exception # None THEN f
           ELSE [f EXCEPT !.context.engaged_ready_position_id = None,
                          !.context.engaged_tool_id = None,
                          !.context.pending_move = None]

\* ------------------------------------------------------------------------
\* Responses: how a call ends and what it leaves behind
\*   result        "valid" | "invalid" (MoveValidationResult), "returned", "raised"
\*   invoked       the execution function was called
\*   hw_sent       a command was sent to the machine
\*   read_position the live position was read (get_machine_position)
\*   options       the ids the reason lists (_format_options), {} when none
\* ------------------------------------------------------------------------
Response(result, reason, st, ctx) ==
    [result |-> result, reason |-> reason, invoked |-> FALSE, hw_sent |-> FALSE,
     read_position |-> FALSE, options |-> {}, state |-> st, context |-> ctx]

Invalid(reason, st, ctx) == Response("invalid", reason, st, ctx)

Raised(exception, st, ctx) == Response("raised", exception, st, ctx)

Valid(st, ctx) == Response("valid", None, st, ctx)

\* validate_move without the rule that an engaged tool stays at its ready
\* point: the topology is consulted in every state
validate_move_unlocked(st, ctx, target_position_id) ==
    IF ~RegistryHas(target_position_id) THEN Invalid("unknown_target", st, ctx)
    ELSE IF ~RegistryHas(ctx.position_id) THEN Invalid("unknown_current", st, ctx)
    ELSE
      LET target_descriptor == PositionDescriptor(target_position_id)
          current_descriptor == PositionDescriptor(ctx.position_id) IN
      IF target_position_id \notin current_descriptor.allowed_destinations
      THEN Invalid("destination", st, ctx)
      ELSE IF ctx.position_id \notin target_descriptor.allowed_origins
      THEN Invalid("origin", st, ctx)
      ELSE IF ZHeightPolicy_validate(target_descriptor.z_height_policy, ctx.z_height_id) # None
      THEN Invalid(ZHeightPolicy_validate(target_descriptor.z_height_policy, ctx.z_height_id),
                   st, ctx)
      ELSE IF validate_requirements(ctx, target_descriptor.requirements) # None
      THEN Invalid("requirement", st, ctx)
      ELSE Valid(st, ctx)

\* validate_move with the allowed_origins check of the target left out
validate_move_without_origins(st, ctx, target_position_id) ==
    IF ~RegistryHas(target_position_id) THEN Invalid("unknown_target", st, ctx)
    ELSE IF ~RegistryHas(ctx.position_id) THEN Invalid("unknown_current", st, ctx)
    ELSE
      LET target_descriptor == PositionDescriptor(target_position_id)
          current_descriptor == PositionDescriptor(ctx.position_id) IN
      IF st = "tool_engaged" /\ target_position_id # ctx.position_id
      THEN Invalid("leave_ready_point", st, ctx)
      ELSE IF st # "tool_engaged"
              /\ target_position_id \notin current_descriptor.allowed_destinations
      THEN Invalid("destination", st, ctx)
      ELSE IF st # "tool_engaged"
              /\ ZHeightPolicy_validate(target_descriptor.z_height_policy, ctx.z_height_id) # None
      THEN Invalid(ZHeightPolicy_validate(target_descriptor.z_height_policy, ctx.z_height_id),
                   st, ctx)
      ELSE IF validate_requirements(ctx, target_descriptor.requirements) # None
      THEN Invalid("requirement", st, ctx)
      ELSE Valid(st, ctx)

\* validate_move(request)
validate_move(st, ctx, target_position_id) ==
    IF ~RegistryHas(target_position_id) THEN Invalid("unknown_target", st, ctx)
    ELSE IF ~RegistryHas(ctx.position_id) THEN Invalid("unknown_current", st, ctx)
    ELSE
      LET target_descriptor == PositionDescriptor(target_position_id)
          current_descriptor == PositionDescriptor(ctx.position_id) IN
      IF st = "tool_engaged" /\ target_position_id # ctx.position_id
      THEN Invalid("leave_ready_point", st, ctx)
      ELSE IF st # "tool_engaged"
              /\ target_position_id \notin current_descriptor.allowed_destinations
      THEN Invalid("destination", st, ctx)
      ELSE IF st # "tool_engaged"
              /\ ctx.position_id \notin target_descriptor.allowed_origins
      THEN Invalid("origin", st, ctx)
      ELSE IF st # "tool_engaged"
              /\ ZHeightPolicy_validate(target_descriptor.z_height_policy, ctx.z_height_id) # None
      THEN Invalid(ZHeightPolicy_validate(target_descriptor.z_height_policy, ctx.z_height_id),
                   st, ctx)
      ELSE IF validate_requirements(ctx, target_descriptor.requirements) # None
      THEN Invalid("requirement", st, ctx)
      ELSE Valid(st, ctx)

\* the shared checks with only the position scope of the descriptor looked at
action_scope_issue_scope_only(st, ctx, descriptor) ==
    IF descriptor.position_scope # {}
       /\ (IF st = "tool_engaged" THEN ctx.engaged_ready_position_id
           ELSE ctx.position_id) \notin descriptor.position_scope
    THEN "position_scope"
    ELSE None

\* the shared checks with the position scope of the descriptor not looked at
action_scope_issue_unscoped(st, ctx, descriptor) ==
    IF descriptor.requires_tool_engaged /\ st # "tool_engaged" THEN "requires_tool_engaged"
    ELSE IF descriptor.blocked_when_engaged /\ st = "tool_engaged" THEN "blocked_when_engaged"
    ELSE IF descriptor.required_tool_id # None
            /\ ctx.active_tool_id # descriptor.required_tool_id
    THEN "required_tool"
    ELSE None

\* the checks perform_action and _validate_and_execute_action share (tool
\* engagement, required tool, position scope): None, or the issue
action_scope_issue(st, ctx, descriptor) ==
    IF descriptor.requires_tool_engaged /\ st # "tool_engaged" THEN "requires_tool_engaged"
    ELSE IF descriptor.blocked_when_engaged /\ st = "tool_engaged" THEN "blocked_when_engaged"
    ELSE IF descriptor.required_tool_id # None
            /\ ctx.active_tool_id # descriptor.required_tool_id
    THEN "required_tool"
    ELSE IF descriptor.position_scope # {}
            /\ (IF st = "tool_engaged" THEN ctx.engaged_ready_position_id
                ELSE ctx.position_id) \notin descriptor.position_scope
    THEN "position_scope"
    ELSE None

\* perform_action once registry.get_action(action_id) has found the descriptor
perform_described_action(st, ctx, descriptor) ==
    IF action_scope_issue(st, ctx, descriptor) # None
    THEN [Invalid(action_scope_issue(st, ctx, descriptor), st, ctx)
            EXCEPT !.options = IF action_scope_issue(st, ctx, descriptor) = "position_scope"
                               THEN descriptor.position_scope ELSE {}]
    ELSE IF validate_requirements(ctx, descriptor.requirements) # None
    THEN Invalid("requirement", st, ctx)
    ELSE IF validate_excludes(ctx, descriptor.excludes) # None
    THEN Invalid("exclude", st, ctx)
    ELSE Valid(st, ctx)

\* perform_action(action_id)
perform_action(st, ctx, action_id) ==
    IF action_id \notin ActionIds THEN Invalid("unknown_action", st, ctx)
    ELSE perform_described_action(st, ctx, ActionDescriptor(action_id))

\* request_move(request)
request_move(st, ctx, target_position_id, action) ==
    IF action # None THEN perform_action(st, ctx, action)
    ELSE IF st = "moving" THEN Invalid("already_executing", st, ctx)
    ELSE
      LET validation == validate_move(st, ctx, target_position_id) IN
      IF validation.result # "valid" THEN validation
      ELSE LET c1 == [ctx EXCEPT !.pending_move = target_position_id]
               f == Fire("begin_motion", st, c1) IN
           IF f.exception # None THEN Raised(f.exception, f.state, f.context)
           ELSE Valid(f.state, f.context)

\* ------------------------------------------------------------------------
\* The generic validate-and-execute protocol
\* ------------------------------------------------------------------------
\* what an execution function can do when it is called
Outcomes == {"True", "False", "None", "raise"}

\* the live positions the machine may report (tenths of a millimetre): at
\* global_ready, and 0.6 mm off it in X
MachineReadings == {[X |-> 0, Y |-> 0, Z |-> 900, V |-> 300],
                    [X |-> 6, Y |-> 0, Z |-> 900, V |-> 300]}

AtGlobalReadyReading == [X |-> 0, Y |-> 0, Z |-> 900, V |-> 300]

DriftedReading == [X |-> 6, Y |-> 0, Z |-> 900, V |-> 300]

\* a call is enumerated with the inputs it looks at: one reading when it ends
\* before get_machine_position(), one outcome when it ends before the executor
\* routine is called
InputsLookedAt(resp, m, succeeds) ==
    /\ resp.read_position \/ m = AtGlobalReadyReading
    /\ resp.invoked \/ succeeds

\* Machine.axes_homed, held as the set of axes reported unhomed
AxesHomedReports == {{}, {"X", "Y", "Z", "U", "V"}}

homing_actions == {"home_all", "home_manipulator", "home_trickler", "home_xyz"}

\* step 7 without the abort_motion of its except clause: an exception from
\* the execution function leaves the move as it was begun
execute_move_unaborted(st, ctx, target_position_id, outcome) ==
    LET c1 == [ctx EXCEPT !.pending_move = target_position_id]
        begun == Fire("begin_motion", st, c1)
        completed == complete_move(begun.state, begun.context, FALSE)
    IN
    IF begun.exception # None \/ outcome = "raise" \/ completed.exception # None
    THEN [Invalid("execution_failed", begun.state, begun.context)
            EXCEPT !.invoked = begun.exception = None, !.hw_sent = begun.exception = None]
    ELSE IF outcome = "False"
    THEN [Invalid("execution_false", completed.state, completed.context)
            EXCEPT !.invoked = TRUE, !.hw_sent = TRUE]
    ELSE [Valid(completed.state, completed.context)
            EXCEPT !.invoked = TRUE, !.hw_sent = TRUE]

\* step 7 of _validate_and_execute_move: pending_move, begin_motion, the
\* execution function, complete_move, all inside one try; only a return of
\* False (`result is False`) is taken for a failure
execute_move(st, ctx, target_position_id, outcome) ==
    LET c1 == [ctx EXCEPT !.pending_move = target_position_id]
        begun == Fire("begin_motion", st, c1)
        aborted == Fire("abort_motion", begun.state, begun.context)
        completed == complete_move(begun.state, begun.context, FALSE)
        after_failure(s, c) ==
            IF s = "moving" THEN Fire("abort_motion", s, c)
            ELSE [exception |-> None, state |-> s, context |-> c]
    IN
    IF begun.exception # None
    THEN Invalid("execution_failed", after_failure(begun.state, begun.context).state,
                 after_failure(begun.state, begun.context).context)
    ELSE IF outcome = "raise"
    THEN [Invalid("execution_failed", aborted.state, aborted.context)
            EXCEPT !.invoked = TRUE, !.hw_sent = TRUE]
    ELSE IF completed.exception # None
    THEN [Invalid("execution_failed",
                  after_failure(completed.state, completed.context).state,
                  after_failure(completed.state, completed.context).context)
            EXCEPT !.invoked = TRUE, !.hw_sent = TRUE]
    ELSE IF outcome = "False"
    THEN [Invalid("execution_false", completed.state, completed.context)
            EXCEPT !.invoked = TRUE, !.hw_sent = TRUE]
    ELSE [Valid(completed.state, completed.context)
            EXCEPT !.invoked = TRUE, !.hw_sent = TRUE]

\* step 10 of _validate_and_execute_action: the execution function inside a
\* try, no transition; a return of False or of None is taken for a failure
execute_action(st, ctx, outcome) ==
    IF outcome = "raise"
    THEN [Invalid("execution_failed", st, ctx) EXCEPT !.invoked = TRUE, !.hw_sent = TRUE]
    ELSE IF outcome \in {"False", "None"}
    THEN [Invalid("execution_false", st, ctx) EXCEPT !.invoked = TRUE, !.hw_sent = TRUE]
    ELSE [Valid(st, ctx) EXCEPT !.invoked = TRUE, !.hw_sent = TRUE]

\* _validate_and_execute_move
validate_and_execute_move(st, ctx, target_position_id, m, outcome) ==
    IF ~RegistryHas(target_position_id) THEN Invalid("unknown_target", st, ctx)
    ELSE IF ~RegistryHas(ctx.position_id) THEN Invalid("unknown_current", st, ctx)
    ELSE
      LET target_descriptor == PositionDescriptor(target_position_id)
          current_descriptor == PositionDescriptor(ctx.position_id)
          machine_validation == validate_machine_state(ctx, m)
          z_height_issue ==
              ZHeightPolicy_validate(target_descriptor.z_height_policy, ctx.z_height_id)
      IN
      IF target_position_id \notin current_descriptor.allowed_destinations
      THEN Invalid("destination", st, ctx)
      ELSE IF ctx.position_id \notin target_descriptor.allowed_origins
      THEN Invalid("origin", st, ctx)
      ELSE IF machine_validation.result = "raised"
      THEN [Raised(machine_validation.reason, st, ctx) EXCEPT !.read_position = TRUE]
      ELSE IF machine_validation.result = "invalid"
      THEN [Invalid("machine_state", st, ctx) EXCEPT !.read_position = TRUE]
      ELSE IF z_height_issue # None
      THEN [Invalid(z_height_issue, st, ctx) EXCEPT !.read_position = TRUE]
      ELSE IF validate_requirements(ctx, target_descriptor.requirements) # None
      THEN [Invalid("requirement", st, ctx) EXCEPT !.read_position = TRUE]
      ELSE [execute_move(st, ctx, target_position_id, outcome) EXCEPT !.read_position = TRUE]

\* _validate_and_execute_action
validate_and_execute_action(st, ctx, action_id, m, outcome) ==
    IF action_id \notin ActionIds THEN Invalid("unknown_action", st, ctx)
    ELSE
      LET descriptor == ActionDescriptor(action_id)
          machine_validation == validate_machine_state(ctx, m) IN
      IF action_scope_issue(st, ctx, descriptor) # None
      THEN [Invalid(action_scope_issue(st, ctx, descriptor), st, ctx)
              EXCEPT !.options = IF action_scope_issue(st, ctx, descriptor) = "position_scope"
                                 THEN descriptor.position_scope ELSE {}]
      ELSE IF machine_validation.result = "raised"
      THEN [Raised(machine_validation.reason, st, ctx) EXCEPT !.read_position = TRUE]
      ELSE IF machine_validation.result = "invalid"
      THEN [Invalid("machine_state", st, ctx) EXCEPT !.read_position = TRUE]
      ELSE IF validate_requirements(ctx, descriptor.requirements) # None
      THEN [Invalid("requirement", st, ctx) EXCEPT !.read_position = TRUE]
      ELSE IF validate_excludes(ctx, descriptor.excludes) # None
      THEN [Invalid("exclude", st, ctx) EXCEPT !.read_position = TRUE]
      ELSE [execute_action(st, ctx, outcome) EXCEPT !.read_position = TRUE]

\* _validate_and_execute: target_position_id and action_id are None when
\* not supplied
validate_and_execute(st, ctx, target_position_id, action_id, unhomed, m, outcome) ==
    IF (target_position_id = None) = (action_id = None)
    THEN Raised("ValueError", st, ctx)
    ELSE IF st = "moving" THEN Invalid("already_executing", st, ctx)
    ELSE IF action_id \notin homing_actions /\ unhomed # {}
    THEN Invalid("not_homed", st, ctx)
    ELSE IF target_position_id # None
    THEN validate_and_execute_move(st, ctx, target_position_id, m, outcome)
    ELSE validate_and_execute_action(st, ctx, action_id, m, outcome)

\* what each executor routine does when the state machine calls it the way
\* it does, given whether the machine accepts the commands
ExecutorOutcome(routine, hw_ok) ==
    CASE routine = "execute_move_to_well_by_id" -> IF hw_ok THEN "True" ELSE "False"
      \* called without its four required arguments: TypeError
      [] routine = "execute_move_to_scale_location" -> "raise"
      [] routine = "execute_move_to_position" -> IF hw_ok THEN "None" ELSE "raise"
      [] routine = "execute_home_all" -> IF hw_ok THEN "None" ELSE "raise"
      [] routine = "execute_home_manipulator" -> IF hw_ok THEN "True" ELSE "False"
      [] routine = "execute_home_trickler" -> IF hw_ok THEN "True" ELSE "False"
      [] routine = "execute_pickup_tool" -> IF hw_ok THEN "True" ELSE "False"
      [] routine = "execute_park_tool" -> IF hw_ok THEN "True" ELSE "False"
      [] routine = "execute_place_top_piston" -> IF hw_ok THEN "None" ELSE "raise"

\* ------------------------------------------------------------------------
\* State
\* ------------------------------------------------------------------------
VARIABLES
    current_state,   \* the state of the state machine
    context,         \* MotionContext
    has_top_piston,  \* WeightWell.has_top_piston of each well of the deck
    num_pistons,     \* PistonDispenser.num_pistons of dispenser 0
    axes_homed,      \* Machine.axes_homed, as the set of unhomed axes
    last,            \* the last call, its inputs and how it ended
    in_flight,       \* per caller: the executor routine its call is inside ({} when none)
    loaded,          \* the registry from_config_file built and its payload ({} when none)
    dispensing       \* the run of execute_dispense_powder under way ({} when none)

vars == <<current_state, context, has_top_piston, num_pistons, axes_homed, last, in_flight,
          loaded, dispensing>>

\* MotionContext(position_id=...) with every other field at its default
DefaultContext(position_id) ==
    [position_id |-> position_id,
     z_height_id |-> None,
     active_tool_id |-> None,
     payload_state |-> None,
     tool_pose |-> None,
     pending_move |-> None,
     engaged_ready_position_id |-> None,
     engaged_tool_id |-> None,
     deck |-> FALSE,
     scale |-> FALSE,
     current_well |-> None,
     mold_on_scale |-> FALSE]

\* the threads that call the state machine
Callers == {"caller_1", "caller_2"}

\* no caller is inside an executor routine
NoRoutine == [c \in Callers |-> {}]

NoCall(ctx) ==
    [op |-> "none", target |-> None, action |-> None, pre_state |-> "idle", pre |-> ctx,
     caps |-> [w \in WellIds |-> FALSE], pistons |-> 0,
     unhomed |-> {}, reading |-> {}, outcome |-> None,
     result |-> "returned", reason |-> None, options |-> {}, arguments |-> {},
     invoked |-> FALSE, hw_sent |-> FALSE]

\* position ids a caller may put in a context it supplies to the constructor
SuppliedPositionIds == PositionIds \cup {"unregistered_position"}

\* a constructor that takes a supplied context without looking its position up
ConstructorAcceptsAny(position_id) == position_id \in SuppliedPositionIds

\* __init__ with a supplied context: self._registry.get(context.position_id)
\* raises KeyError for an unknown position and no state machine exists
ConstructorAccepts(position_id) == RegistryHas(position_id)

\* the platform a state machine is constructed on: a caller-supplied
\* context holding a deck, with a scale attached and no mold carried
PlatformSetups ==
    {[deck |-> TRUE, scale |-> TRUE, current_well |-> None]}

\* __init__: the default context sits at the GLOBAL_READY position; a
\* supplied context may name any position the constructor accepts
Init ==
    /\ current_state = "idle"
    /\ \E position_id \in SuppliedPositionIds, setup \in PlatformSetups :
          /\ ConstructorAccepts(position_id)
          /\ context = [DefaultContext(position_id) EXCEPT !.deck = setup.deck,
                                                           !.scale = setup.scale,
                                                           !.current_well = setup.current_well]
    /\ has_top_piston = [w \in WellIds |-> FALSE]
    /\ num_pistons = MaxPistons
    /\ axes_homed \in AxesHomedReports
    /\ last = NoCall(context)
    /\ in_flight = NoRoutine
    /\ loaded = {}
    /\ dispensing = {}

\* calls are made one after the other: the caller takes the response of a
\* call before it makes the next one
ResponseTaken == last.op = "none"

\* the record of a call that ended with response `resp`; reading holds the
\* live position when the call read it
CallRecord(op, target, action, reading, outcome, resp) ==
    [op |-> op, target |-> target, action |-> action,
     pre_state |-> current_state, pre |-> context,
     caps |-> has_top_piston, pistons |-> num_pistons, unhomed |-> axes_homed,
     reading |-> IF resp.read_position THEN {reading} ELSE {},
     outcome |-> IF resp.invoked THEN outcome ELSE None,
     result |-> resp.result, reason |-> resp.reason, options |-> resp.options,
     arguments |-> {},
     invoked |-> resp.invoked, hw_sent |-> resp.hw_sent]

\* a call that touches nothing but the state machine and its context
Call(op, target, action, reading, outcome, resp) ==
    /\ ResponseTaken
    /\ current_state' = resp.state
    /\ context' = resp.context
    /\ last' = CallRecord(op, target, action, reading, outcome, resp)
    /\ UNCHANGED <<has_top_piston, num_pistons, axes_homed, in_flight, loaded, dispensing>>

\* ------------------------------------------------------------------------
\* Public operations of MotionPlatformStateMachine
\* ------------------------------------------------------------------------
\* the requests a caller makes: a move to a target, or an action (the
\* target of a request that names an action is not looked at)
MoveRequests ==
    {[target_position_id |-> t, action |-> None] : t \in TargetIds}
    \cup {[target_position_id |-> "global_ready", action |-> a] : a \in RequestableActionIds}

RequestMove ==
    \E request \in MoveRequests :
        Call("request_move", request.target_position_id, request.action, None, None,
             request_move(current_state, context, request.target_position_id, request.action))

PerformAction ==
    \E action_id \in RequestableActionIds :
        Call("perform_action", None, action_id, None, None,
             perform_action(current_state, context, action_id))

ValidateMove ==
    \E target_position_id \in TargetIds :
        Call("validate_move", target_position_id, None, None, None,
             validate_move(current_state, context, target_position_id))

\* a call that returns None or raises
VoidResponse(f) ==
    IF f.exception # None THEN Raised(f.exception, f.state, f.context)
    ELSE Response("returned", None, f.state, f.context)

\* complete_move(tool_still_engaged=...): the record of the call keeps the
\* pending target and, in its action field, the keyword when it is True
CompleteMove ==
    \E tool_still_engaged \in BOOLEAN :
        Call("complete_move", context.pending_move,
             IF tool_still_engaged THEN "tool_still_engaged" ELSE None, None, None,
             VoidResponse(complete_move(current_state, context, tool_still_engaged)))

\* the abort_motion event, fired by a caller that gives up a pending move
AbortMotion ==
    Call("abort_motion", None, None, None, None,
         VoidResponse(Fire("abort_motion", current_state, context)))

\* request_tool_engagement()
request_tool_engagement(st, ctx) ==
    IF st # "idle" THEN Invalid("not_idle", st, ctx)
    ELSE IF ~PositionDescriptor(ctx.position_id).allows_tool_engagement
    THEN Invalid("engagement_not_permitted", st, ctx)
    ELSE IF validate_requirements(ctx, EngagementRequirements(ctx.position_id)) # None
    THEN Invalid("requirement", st, ctx)
    ELSE LET f == Fire("engage_tool", st, ctx) IN
         IF f.exception # None THEN Raised(f.exception, f.state, f.context)
         ELSE Valid(f.state, [f.context EXCEPT !.engaged_ready_position_id = ctx.position_id,
                                               !.engaged_tool_id = ctx.active_tool_id])

\* request_tool_disengagement()
request_tool_disengagement(st, ctx) ==
    IF st # "tool_engaged" THEN Invalid("not_engaged", st, ctx)
    ELSE IF ctx.engaged_ready_position_id = None THEN Invalid("ready_position_unknown", st, ctx)
    ELSE IF validate_requirements(ctx, EngagementRequirements(ctx.engaged_ready_position_id)) # None
    THEN Invalid("requirement", st, ctx)
    ELSE LET f == Fire("disengage_tool", st, ctx) IN
         IF f.exception # None THEN Raised(f.exception, f.state, f.context)
         ELSE Valid(f.state, [f.context EXCEPT !.engaged_ready_position_id = None,
                                               !.engaged_tool_id = None])

RequestToolEngagement ==
    Call("request_tool_engagement", None, None, None, None,
         request_tool_engagement(current_state, context))

RequestToolDisengagement ==
    Call("request_tool_disengagement", None, None, None, None,
         request_tool_disengagement(current_state, context))

\* a setter that writes every argument it is given, None included
update_context_cleared(ctx, active_tool_id, payload_state, tool_pose, z_height_id) ==
    [ctx EXCEPT !.active_tool_id = active_tool_id,
                !.payload_state = payload_state,
                !.tool_pose = tool_pose,
                !.z_height_id = z_height_id]

\* update_context(active_tool_id=, payload_state=, tool_pose=, z_height_id=):
\* an argument of None leaves the field alone
update_context(ctx, active_tool_id, payload_state, tool_pose, z_height_id) ==
    [ctx EXCEPT !.active_tool_id = IF active_tool_id # None THEN active_tool_id ELSE @,
                !.payload_state = IF payload_state # None THEN payload_state ELSE @,
                !.tool_pose = IF tool_pose # None THEN tool_pose ELSE @,
                !.z_height_id = IF z_height_id # None THEN z_height_id ELSE @]

\* the argument lists callers pass: nothing, or one of the fields the
\* checks read
UpdateArguments ==
    {[active_tool_id |-> None, payload_state |-> None, tool_pose |-> None,
      z_height_id |-> None]}
    \cup {[active_tool_id |-> t, payload_state |-> None, tool_pose |-> None,
           z_height_id |-> None] : t \in ToolIds}
    \cup {[active_tool_id |-> None, payload_state |-> p, tool_pose |-> None,
           z_height_id |-> None] : p \in PayloadStates}
    \cup {[active_tool_id |-> None, payload_state |-> None, tool_pose |-> None,
           z_height_id |-> z] : z \in ZHeightIds}

UpdateContext ==
    \E args \in UpdateArguments :
        Call("update_context", None, None, None, None,
             Response("returned", None, current_state,
                      update_context(context, args.active_tool_id, args.payload_state,
                                     args.tool_pose, args.z_height_id)))

\* the ways the generic protocol is entered: a target, an action, or neither
GenericRequests ==
    {[target_position_id |-> t, action_id |-> None] : t \in TargetIds}
    \cup {[target_position_id |-> None, action_id |-> a] : a \in RequestableActionIds}
    \cup {[target_position_id |-> None, action_id |-> None]}

\* _validate_and_execute(target_position_id=, action_id=, execution_func=)
ValidateAndExecute ==
    \E request \in GenericRequests, m \in MachineReadings, outcome \in Outcomes :
        LET resp == validate_and_execute(current_state, context, request.target_position_id,
                                         request.action_id, axes_homed, m, outcome) IN
        /\ InputsLookedAt(resp, m, outcome = "True")
        /\ Call("validate_and_execute", request.target_position_id, request.action_id,
                m, outcome, resp)

\* WeightWell.ready_pos, f"mold_ready_{well_name}"
ReadyPos(well_id) == IF well_id = "A1" THEN "mold_ready_A1" ELSE "mold_ready_B1"

\* validated_move_to_well(well_id)
validated_move_to_well(st, ctx, well_id, m, hw_ok) ==
    IF ~ctx.deck THEN Invalid("deck_not_configured", st, ctx)
    ELSE validate_and_execute_move(
             st, ctx,
             IF RegistryHas(ReadyPos(well_id)) THEN ReadyPos(well_id) ELSE "MOLD_READY",
             m, ExecutorOutcome("execute_move_to_well_by_id", hw_ok))

ValidatedMoveToWell ==
    \E well_id \in WellIds, m \in MachineReadings, hw_ok \in BOOLEAN :
        LET resp == validated_move_to_well(current_state, context, well_id, m, hw_ok) IN
        /\ InputsLookedAt(resp, m, hw_ok)
        /\ Call("validated_move_to_well", IF RegistryHas(ReadyPos(well_id)) THEN ReadyPos(well_id) ELSE "MOLD_READY", None, m, ExecutorOutcome("execute_move_to_well_by_id", hw_ok), resp)

\* validated_move_to_scale()
validated_move_to_scale(st, ctx, m, hw_ok) ==
    IF ~ctx.scale THEN Invalid("scale_not_configured", st, ctx)
    ELSE validate_and_execute_move(st, ctx, "SCALE_READY", m,
                                   ExecutorOutcome("execute_move_to_scale_location", hw_ok))

ValidatedMoveToScale ==
    \E m \in MachineReadings, hw_ok \in BOOLEAN :
        LET resp == validated_move_to_scale(current_state, context, m, hw_ok) IN
        /\ InputsLookedAt(resp, m, hw_ok)
        /\ Call("validated_move_to_scale", "SCALE_READY", None, m, ExecutorOutcome("execute_move_to_scale_location", hw_ok), resp)

DispenserIndexes == {0, 1}

\* f"dispenser_ready_{dispenser_index}"
DispenserReady(dispenser_index) ==
    IF dispenser_index = 0 THEN "dispenser_ready_0" ELSE "dispenser_ready_1"

\* validated_move_to_dispenser(dispenser_index, x, y)
validated_move_to_dispenser(st, ctx, dispenser_index, m, hw_ok) ==
    validate_and_execute_move(st, ctx, DispenserReady(dispenser_index), m,
                              ExecutorOutcome("execute_move_to_position", hw_ok))

ValidatedMoveToDispenser ==
    \E dispenser_index \in DispenserIndexes, m \in MachineReadings, hw_ok \in BOOLEAN :
        LET resp == validated_move_to_dispenser(current_state, context, dispenser_index, m, hw_ok) IN
        /\ InputsLookedAt(resp, m, hw_ok)
        /\ Call("validated_move_to_dispenser", DispenserReady(dispenser_index), None, m, ExecutorOutcome("execute_move_to_position", hw_ok), resp)

\* the context after a successful home_all or pickup_tool: back at the
\* GLOBAL_READY position at the mold transfer height
AtGlobalReady(ctx) ==
    [ctx EXCEPT !.position_id = FindFirstOfType("GLOBAL_READY"),
                !.z_height_id = "mold_transfer_safe"]

\* validated_home_all()
validated_home_all(st, ctx, unhomed, m, hw_ok) ==
    LET result == validate_and_execute(st, ctx, None, "home_all", unhomed, m,
                                       ExecutorOutcome("execute_home_all", hw_ok)) IN
    IF result.result = "valid" THEN [result EXCEPT !.context = AtGlobalReady(result.context)]
    ELSE result

ValidatedHomeAll ==
    \E m \in MachineReadings, hw_ok \in BOOLEAN :
        LET resp == validated_home_all(current_state, context, axes_homed, m, hw_ok) IN
        /\ InputsLookedAt(resp, m, hw_ok)
        /\ Call("validated_home_all", None, "home_all", m, ExecutorOutcome("execute_home_all", hw_ok), resp)

\* validated_home_manipulator()
ValidatedHomeManipulator ==
    \E m \in MachineReadings, hw_ok \in BOOLEAN :
        LET resp == validate_and_execute(current_state, context, None, "home_manipulator", axes_homed, m, ExecutorOutcome("execute_home_manipulator", hw_ok)) IN
        /\ InputsLookedAt(resp, m, hw_ok)
        /\ Call("validated_home_manipulator", None, "home_manipulator", m, ExecutorOutcome("execute_home_manipulator", hw_ok), resp)

\* validated_home_trickler()
ValidatedHomeTrickler ==
    \E m \in MachineReadings, hw_ok \in BOOLEAN :
        LET resp == validate_and_execute(current_state, context, None, "home_trickler", axes_homed, m, ExecutorOutcome("execute_home_trickler", hw_ok)) IN
        /\ InputsLookedAt(resp, m, hw_ok)
        /\ Call("validated_home_trickler", None, "home_trickler", m, ExecutorOutcome("execute_home_trickler", hw_ok), resp)

\* the tools a caller may hand to validated_pickup_tool, by name
ToolNames == {"manipulator", "trickler"}

\* validated_pickup_tool(tool)
validated_pickup_tool(st, ctx, tool_name, unhomed, m, hw_ok) ==
    IF tool_name # "manipulator" THEN Invalid("unsupported_tool", st, ctx)
    ELSE LET result == validate_and_execute(st, ctx, None, "pickup_tool", unhomed, m,
                                            ExecutorOutcome("execute_pickup_tool", hw_ok)) IN
         IF result.result = "valid"
         THEN [result EXCEPT !.context =
                   AtGlobalReady([result.context EXCEPT !.active_tool_id = "manipulator"])]
         ELSE result

ValidatedPickupTool ==
    \E tool_name \in ToolNames, m \in MachineReadings, hw_ok \in BOOLEAN :
        LET resp == validated_pickup_tool(current_state, context, tool_name, axes_homed, m, hw_ok) IN
        /\ InputsLookedAt(resp, m, hw_ok)
        /\ Call("validated_pickup_tool", None, "pickup_tool", m, ExecutorOutcome("execute_pickup_tool", hw_ok), resp)

\* validated_park_tool()
validated_park_tool(st, ctx, unhomed, m, hw_ok) ==
    LET result == validate_and_execute(st, ctx, None, "park_tool", unhomed, m,
                                       ExecutorOutcome("execute_park_tool", hw_ok)) IN
    IF result.result = "valid"
    THEN [result EXCEPT !.context.active_tool_id = None,
                        !.context.z_height_id = "mold_transfer_safe"]
    ELSE result

ValidatedParkTool ==
    \E m \in MachineReadings, hw_ok \in BOOLEAN :
        LET resp == validated_park_tool(current_state, context, axes_homed, m, hw_ok) IN
        /\ InputsLookedAt(resp, m, hw_ok)
        /\ Call("validated_park_tool", None, "park_tool", m, ExecutorOutcome("execute_park_tool", hw_ok), resp)

\* validated_perform_action(action_id): calls _validate_and_execute_move
\* with action_id= and without its required target_position_id: TypeError
validated_perform_action(st, ctx, action_id) == Raised("TypeError", st, ctx)

ValidatedPerformAction ==
    \E action_id \in RequestableActionIds :
        Call("validated_perform_action", None, action_id, None, None,
             validated_perform_action(current_state, context, action_id))

\* validated_home_tamper(): execute_home_tamper raises RuntimeError unless
\* X, Y, Z and U are homed, then sends the homing macro
validated_home_tamper(st, ctx, unhomed, hw_ok) ==
    IF unhomed \cap {"X", "Y", "Z", "U"} # {}
    THEN [Invalid("execution_failed", st, ctx) EXCEPT !.invoked = TRUE]
    ELSE IF ~hw_ok
    THEN [Invalid("execution_failed", st, ctx) EXCEPT !.invoked = TRUE, !.hw_sent = TRUE]
    ELSE [Valid(st, ctx) EXCEPT !.invoked = TRUE, !.hw_sent = TRUE]

ValidatedHomeTamper ==
    \E hw_ok \in BOOLEAN :
        Call("validated_home_tamper", None, "home_tamper", None, None,
             validated_home_tamper(current_state, context, axes_homed, hw_ok))

\* ------------------------------------------------------------------------
\* Mold handling
\* ------------------------------------------------------------------------
\* a call that may also cap a mold or take a piston from the dispenser
MoldCall(op, target, action, reading, outcome, resp, capped_well, pistons_taken) ==
    /\ ResponseTaken
    /\ current_state' = resp.state
    /\ context' = resp.context
    /\ last' = CallRecord(op, target, action, reading, outcome, resp)
    /\ has_top_piston' = IF capped_well # None
                         THEN [has_top_piston EXCEPT ![capped_well] = TRUE]
                         ELSE has_top_piston
    /\ num_pistons' = num_pistons - pistons_taken
    /\ UNCHANGED <<axes_homed, in_flight, loaded, dispensing>>

\* mold.has_top_piston of the carried mold
CarriedMoldCapped(ctx, caps) == ctx.current_well # None /\ caps[ctx.current_well]

\* validated_pick_mold_from_well(well_id): execute_pick_mold_from_well sends
\* five moves and then reads the undefined name z_ready (NameError), so the
\* call never reports success and current_well is never set
validated_pick_mold_from_well(st, ctx, caps, well_id) ==
    IF ctx.current_well # None THEN Invalid("already_carrying", st, ctx)
    ELSE IF ~ctx.deck THEN Invalid("deck_not_configured", st, ctx)
    ELSE IF caps[well_id] THEN Invalid("has_top_piston", st, ctx)
    ELSE [Invalid("execution_failed", st, ctx) EXCEPT !.invoked = TRUE, !.hw_sent = TRUE]

ValidatedPickMoldFromWell ==
    \E well_id \in WellIds :
        Call("validated_pick_mold_from_well", ReadyPos(well_id), None, None, None,
             validated_pick_mold_from_well(current_state, context, has_top_piston, well_id))

\* validated_place_mold_in_well giving the mold up before the routine is
\* called, whatever becomes of the call
validated_place_mold_in_well_released_first(st, ctx, well_id) ==
    IF ctx.current_well = None THEN Invalid("not_carrying", st, ctx)
    ELSE IF ~ctx.deck THEN Invalid("deck_not_configured", st, ctx)
    ELSE Invalid("execution_failed", st, [ctx EXCEPT !.current_well = None,
                                                     !.mold_on_scale = FALSE])

\* validated_place_mold_in_well with a routine that takes the arguments it
\* is given and returns
validated_place_mold_in_well_routine_returns(st, ctx, well_id) ==
    IF ctx.current_well = None THEN Invalid("not_carrying", st, ctx)
    ELSE IF ~ctx.deck THEN Invalid("deck_not_configured", st, ctx)
    ELSE Valid(st, [ctx EXCEPT !.current_well = None, !.mold_on_scale = FALSE])

\* validated_place_mold_in_well(well_id): execute_place_mold_in_well takes
\* no tamper_axis, tamper_travel_pos or safe_z argument, so the call raises
\* TypeError before the routine runs
validated_place_mold_in_well(st, ctx, well_id) ==
    IF ctx.current_well = None THEN Invalid("not_carrying", st, ctx)
    ELSE IF ~ctx.deck THEN Invalid("deck_not_configured", st, ctx)
    ELSE Invalid("execution_failed", st, ctx)

ValidatedPlaceMoldInWell ==
    \E well_id \in WellIds :
        Call("validated_place_mold_in_well", ReadyPos(well_id), None, None, None,
             validated_place_mold_in_well(current_state, context, well_id))

\* validated_place_mold_on_scale(): execute_place_mold_on_scale takes no
\* tamper_travel_pos argument: TypeError before the routine runs
validated_place_mold_on_scale(st, ctx, caps) ==
    IF ~ctx.scale THEN Invalid("scale_not_configured", st, ctx)
    ELSE IF ctx.current_well = None THEN Invalid("not_carrying", st, ctx)
    ELSE IF CarriedMoldCapped(ctx, caps) THEN Invalid("has_top_piston", st, ctx)
    ELSE IF ctx.mold_on_scale THEN Invalid("already_on_scale", st, ctx)
    ELSE Invalid("execution_failed", st, ctx)

ValidatedPlaceMoldOnScale ==
    Call("validated_place_mold_on_scale", "SCALE_READY", None, None, None,
         validated_place_mold_on_scale(current_state, context, has_top_piston))

\* validated_pick_mold_from_scale(): TypeError in the same way
validated_pick_mold_from_scale(st, ctx) ==
    IF ~ctx.scale THEN Invalid("scale_not_configured", st, ctx)
    ELSE IF ctx.current_well = None THEN Invalid("not_carrying", st, ctx)
    ELSE IF ~ctx.mold_on_scale THEN Invalid("not_on_scale", st, ctx)
    ELSE Invalid("execution_failed", st, ctx)

ValidatedPickMoldFromScale ==
    Call("validated_pick_mold_from_scale", "SCALE_READY", None, None, None,
         validated_pick_mold_from_scale(current_state, context))

\* validated_tamp(): execute_tamp is called without scale_y and raises
\* RuntimeError before it sends anything
validated_tamp(st, ctx, caps) ==
    IF ~ctx.scale THEN Invalid("scale_not_configured", st, ctx)
    ELSE IF ctx.current_well = None THEN Invalid("not_carrying", st, ctx)
    ELSE IF ~ctx.mold_on_scale THEN Invalid("not_on_scale", st, ctx)
    ELSE IF CarriedMoldCapped(ctx, caps) THEN Invalid("has_top_piston", st, ctx)
    ELSE [Invalid("execution_failed", st, ctx) EXCEPT !.invoked = TRUE]

ValidatedTamp ==
    Call("validated_tamp", "SCALE_READY", None, None, None,
         validated_tamp(current_state, context, has_top_piston))

\* the checks on the mold alone, the count of the dispenser not looked at
piston_issue_without_count(ctx, caps, pistons) ==
    IF ctx.current_well = None THEN "not_carrying"
    ELSE IF CarriedMoldCapped(ctx, caps) THEN "has_top_piston"
    ELSE IF ctx.mold_on_scale THEN "on_scale"
    ELSE None

\* the checks without the one on mold_on_scale
piston_issue_scale_unchecked(ctx, caps, pistons) ==
    IF ctx.current_well = None THEN "not_carrying"
    ELSE IF CarriedMoldCapped(ctx, caps) THEN "has_top_piston"
    ELSE IF pistons = 0 THEN "no_pistons"
    ELSE None

\* the checks validated_place_top_piston and validated_retrieve_piston make
\* on the mold and the dispenser: None, or the issue
piston_issue(ctx, caps, pistons) ==
    IF ctx.current_well = None THEN "not_carrying"
    ELSE IF CarriedMoldCapped(ctx, caps) THEN "has_top_piston"
    ELSE IF pistons = 0 THEN "no_pistons"
    ELSE IF ctx.mold_on_scale THEN "on_scale"
    ELSE None

\* validated_place_top_piston(piston_dispenser)
validated_place_top_piston(st, ctx, caps, pistons, hw_ok) ==
    IF piston_issue(ctx, caps, pistons) # None
    THEN Invalid(piston_issue(ctx, caps, pistons), st, ctx)
    ELSE IF ~hw_ok
    THEN [Invalid("execution_failed", st, ctx) EXCEPT !.invoked = TRUE, !.hw_sent = TRUE]
    ELSE [Valid(st, ctx) EXCEPT !.invoked = TRUE, !.hw_sent = TRUE]

ValidatedPlaceTopPiston ==
    \E hw_ok \in BOOLEAN :
        LET resp == validated_place_top_piston(current_state, context, has_top_piston,
                                               num_pistons, hw_ok) IN
        MoldCall("validated_place_top_piston", "dispenser_ready_0", None, None, None, resp,
                 IF resp.result = "valid" THEN context.current_well ELSE None, 0)

\* validated_retrieve_piston(piston_dispenser), for dispenser 0
validated_retrieve_piston(st, ctx, caps, pistons, unhomed, m, hw_ok) ==
    IF ctx.position_id # DispenserReady(0) THEN Invalid("wrong_position", st, ctx)
    ELSE IF piston_issue(ctx, caps, pistons) # None
    THEN Invalid(piston_issue(ctx, caps, pistons), st, ctx)
    ELSE validate_and_execute(st, ctx, None, "retrieve_piston", unhomed, m,
                              ExecutorOutcome("execute_place_top_piston", hw_ok))

ValidatedRetrievePiston ==
    \E m \in MachineReadings, hw_ok \in BOOLEAN :
        LET resp == validated_retrieve_piston(current_state, context, has_top_piston,
                                              num_pistons, axes_homed, m, hw_ok) IN
        /\ InputsLookedAt(resp, m, hw_ok)
        /\ MoldCall("validated_retrieve_piston", "dispenser_ready_0", "retrieve_piston", m,
                 ExecutorOutcome("execute_place_top_piston", hw_ok), resp,
                 IF resp.result = "valid" THEN context.current_well ELSE None,
                 IF resp.result = "valid" THEN 1 ELSE 0)

\* ------------------------------------------------------------------------
\* The machine
\* ------------------------------------------------------------------------
\* between two calls: the caller has the response of the last call, and
\* the machine driver reports the homing status the next call will read
MachineAxesHomed ==
    \E report \in AxesHomedReports :
        /\ ~ResponseTaken \/ report # axes_homed
        /\ axes_homed' = report
        /\ last' = NoCall(context)
        /\ UNCHANGED <<current_state, context, has_top_piston, num_pistons, in_flight,
                       loaded, dispensing>>

Next ==
    \/ RequestMove
    \/ PerformAction
    \/ ValidateMove
    \/ CompleteMove
    \/ AbortMotion
    \/ RequestToolEngagement
    \/ RequestToolDisengagement
    \/ UpdateContext
    \/ ValidateAndExecute
    \/ ValidatedMoveToWell
    \/ ValidatedMoveToScale
    \/ ValidatedMoveToDispenser
    \/ ValidatedHomeAll
    \/ ValidatedHomeManipulator
    \/ ValidatedHomeTrickler
    \/ ValidatedPickupTool
    \/ ValidatedParkTool
    \/ ValidatedPerformAction
    \/ ValidatedHomeTamper
    \/ ValidatedPickMoldFromWell
    \/ ValidatedPlaceMoldInWell
    \/ ValidatedPlaceMoldOnScale
    \/ ValidatedPickMoldFromScale
    \/ ValidatedTamp
    \/ ValidatedPlaceTopPiston
    \/ ValidatedRetrievePiston
    \/ MachineAxesHomed

Spec == Init /\ [][Next]_vars

\* ------------------------------------------------------------------------
\* A platform in the middle of a run: the state machine is constructed on a
\* supplied context that may already carry a mold, the wells of the deck may
\* already be capped, and initialize_dispensers has loaded dispenser 0 with
\* any number of pistons up to MaxPistons
\* ------------------------------------------------------------------------
\* deck, scale, current_well and mold_on_scale of a supplied context: a
\* carried mold comes from a well of the deck, and a mold on the scale is a
\* carried mold on an attached scale
MoldSetups ==
    {setup \in [deck : BOOLEAN, scale : BOOLEAN,
                current_well : WellIds \cup {None}, mold_on_scale : BOOLEAN] :
        /\ setup.current_well # None => setup.deck
        /\ setup.mold_on_scale => setup.current_well # None /\ setup.scale}

InitMold ==
    /\ current_state = "idle"
    /\ \E position_id \in PositionIds, setup \in MoldSetups :
          context = [DefaultContext(position_id) EXCEPT !.deck = setup.deck,
                                                       !.scale = setup.scale,
                                                       !.current_well = setup.current_well,
                                                       !.mold_on_scale = setup.mold_on_scale]
    /\ has_top_piston \in [WellIds -> BOOLEAN]
    /\ num_pistons \in 0..MaxPistons
    /\ axes_homed \in AxesHomedReports
    /\ last = NoCall(context)
    /\ in_flight = NoRoutine
    /\ loaded = {}
    /\ dispensing = {}

NextMold ==
    \/ ValidatedPickMoldFromWell
    \/ ValidatedPlaceMoldInWell
    \/ ValidatedPlaceMoldOnScale
    \/ ValidatedPickMoldFromScale
    \/ ValidatedTamp
    \/ ValidatedPlaceTopPiston
    \/ ValidatedRetrievePiston
    \/ ValidatedHomeTamper
    \/ RequestMove
    \/ CompleteMove
    \/ AbortMotion
    \/ MachineAxesHomed

SpecMold == InitMold /\ [][NextMold]_vars

\* ------------------------------------------------------------------------
\* Two callers: a call that reaches an executor routine is inside it from
\* the moment the routine is called until it returns or raises, and the
\* other caller may call the state machine in between. The state machine
\* holds no lock; a call looks at current_state and the context as they are
\* when it arrives
\* ------------------------------------------------------------------------
\* caller c is let into an executor routine: the call passed every check
\* the method makes before it calls the routine
RoutineCalled(c, op, target, resp) ==
    /\ ResponseTaken
    /\ in_flight[c] = {}
    /\ resp.invoked
    /\ in_flight' = [in_flight EXCEPT ![c] = {[op |-> op, target |-> target,
                                               mold |-> context.current_well]}]
    /\ UNCHANGED <<current_state, context, has_top_piston, num_pistons, axes_homed, last,
                   loaded, dispensing>>

\* the routine caller c is inside returns or raises, and the method ends
\* with response resp; capped_well is the mold the method caps, or None
RoutineReturns(c, op, resp, capped_well) ==
    /\ ResponseTaken
    /\ \E routine \in in_flight[c] :
          /\ routine.op = op
          /\ last' = CallRecord(op, routine.target, None, None, None, resp)
    /\ current_state' = resp.state
    /\ context' = resp.context
    /\ has_top_piston' = IF capped_well # None
                         THEN [has_top_piston EXCEPT ![capped_well] = TRUE]
                         ELSE has_top_piston
    /\ in_flight' = [in_flight EXCEPT ![c] = {}]
    /\ UNCHANGED <<num_pistons, axes_homed, loaded, dispensing>>

\* validated_pick_mold_from_well up to the call of execute_pick_mold_from_well
PickMoldFromWellCalled(c) ==
    \E well_id \in WellIds :
        RoutineCalled(c, "validated_pick_mold_from_well", ReadyPos(well_id),
                      validated_pick_mold_from_well(current_state, context, has_top_piston,
                                                    well_id))

\* execute_pick_mold_from_well raises NameError after its five moves
PickMoldFromWellReturns(c) ==
    RoutineReturns(c, "validated_pick_mold_from_well",
                   [Invalid("execution_failed", current_state, context)
                      EXCEPT !.invoked = TRUE, !.hw_sent = TRUE],
                   None)

\* validated_place_top_piston up to the call of execute_place_top_piston
PlaceTopPistonCalled(c) ==
    RoutineCalled(c, "validated_place_top_piston", "dispenser_ready_0",
                  validated_place_top_piston(current_state, context, has_top_piston,
                                             num_pistons, TRUE))

\* execute_place_top_piston returns, or raises when the machine refuses a
\* move; on return the method caps the mold it read when it was called
PlaceTopPistonReturns(c) ==
    \E hw_ok \in BOOLEAN :
        RoutineReturns(c, "validated_place_top_piston",
                       [(IF hw_ok THEN Valid(current_state, context)
                         ELSE Invalid("execution_failed", current_state, context))
                          EXCEPT !.invoked = TRUE, !.hw_sent = TRUE],
                       IF hw_ok /\ in_flight[c] # {}
                       THEN (CHOOSE routine \in in_flight[c] : TRUE).mold ELSE None)

\* validated_home_tamper calls execute_home_tamper without any check
HomeTamperCalled(c) ==
    RoutineCalled(c, "validated_home_tamper", None,
                  validated_home_tamper(current_state, context, axes_homed, TRUE))

HomeTamperReturns(c) ==
    \E hw_ok \in BOOLEAN :
        RoutineReturns(c, "validated_home_tamper",
                       validated_home_tamper(current_state, context, axes_homed, hw_ok),
                       None)

NextConcurrent ==
    \/ \E c \in Callers : PickMoldFromWellCalled(c)
    \/ \E c \in Callers : PickMoldFromWellReturns(c)
    \/ \E c \in Callers : PlaceTopPistonCalled(c)
    \/ \E c \in Callers : PlaceTopPistonReturns(c)
    \/ \E c \in Callers : HomeTamperCalled(c)
    \/ \E c \in Callers : HomeTamperReturns(c)
    \/ ValidatedMoveToScale
    \/ MachineAxesHomed

SpecConcurrent == InitMold /\ [][NextConcurrent]_vars

\* ------------------------------------------------------------------------
\* The execution step of the generic protocol on its own: a request that
\* has passed every check before it (the state is not moving, the descriptor
\* checks hold of the context, the live position agrees) hands its execution
\* function to step 7 of _validate_and_execute_move or to step 10 of
\* _validate_and_execute_action
\* ------------------------------------------------------------------------
ExecuteMove ==
    \E target_position_id \in PositionIds, outcome \in Outcomes :
        LET target_descriptor == PositionDescriptor(target_position_id)
            current_descriptor == PositionDescriptor(context.position_id) IN
        /\ current_state # "moving"
        /\ target_position_id \in current_descriptor.allowed_destinations
        /\ context.position_id \in target_descriptor.allowed_origins
        /\ ZHeightPolicy_validate(target_descriptor.z_height_policy, context.z_height_id) = None
        /\ validate_requirements(context, target_descriptor.requirements) = None
        /\ Call("execute_move", target_position_id, None, None, outcome,
                execute_move(current_state, context, target_position_id, outcome))

ExecuteAction ==
    \E action_id \in ActionIds, outcome \in Outcomes :
        LET descriptor == ActionDescriptor(action_id) IN
        /\ current_state # "moving"
        /\ action_scope_issue(current_state, context, descriptor) = None
        /\ validate_requirements(context, descriptor.requirements) = None
        /\ validate_excludes(context, descriptor.excludes) = None
        /\ Call("execute_action", None, action_id, None, outcome,
                execute_action(current_state, context, outcome))

NextExecution ==
    \/ ExecuteMove
    \/ ExecuteAction
    \/ UpdateContext
    \/ RequestToolEngagement
    \/ RequestToolDisengagement
    \/ MachineAxesHomed

SpecExecution == Init /\ [][NextExecution]_vars

\* ------------------------------------------------------------------------
\* Coordinate validation on its own: PositionRegistry.validateN_position is
\* applied to a position of the registry, the z-height class of the context
\* and a live reading on, just inside and just outside the tolerance band of
\* every axis
\* ------------------------------------------------------------------------
\* a z-height class the registry does not configure
UnknownZHeightIds == {"tamp_safe"}

\* the distance of a reading from the declared coordinate (tenths of a
\* millimetre): on it, on the boundary of the band, just outside it
BoundaryOffsets == {0, CoordinateTolerance, -CoordinateTolerance,
                    CoordinateTolerance + 1, -(CoordinateTolerance + 1)}

\* the coordinate an axis is compared with, 0 when it is compared with none
DeclaredCoordinate(expected, current_z_height_id) ==
    CASE expected.kind = "literal" -> expected.value
      [] expected.kind = "use_z_height_policy" ->
            IF current_z_height_id \in ConfiguredZHeightIds
            THEN ZHeightCoordinate(current_z_height_id)
            ELSE 0
      [] OTHER -> 0

\* the live readings around the declared coordinates of a position
CoordinateReadings(position_id, current_z_height_id) ==
    LET coords == PositionDescriptor(position_id).coordinates IN
    {[X |-> DeclaredCoordinate(coords.x, current_z_height_id) + dx,
      Y |-> DeclaredCoordinate(coords.y, current_z_height_id) + dy,
      Z |-> DeclaredCoordinate(coords.z, current_z_height_id) + dz,
      V |-> DeclaredCoordinate(coords.v, current_z_height_id) + dv] :
        dx \in BoundaryOffsets, dy \in BoundaryOffsets,
        dz \in BoundaryOffsets, dv \in BoundaryOffsets}

InitCoordinates ==
    /\ current_state = "idle"
    /\ \E position_id \in PositionIds,
          z_height_id \in ConfiguredZHeightIds \cup UnknownZHeightIds \cup {None} :
          context = [DefaultContext(position_id) EXCEPT !.z_height_id = z_height_id]
    /\ has_top_piston = [w \in WellIds |-> FALSE]
    /\ num_pistons = MaxPistons
    /\ axes_homed \in AxesHomedReports
    /\ last = NoCall(context)
    /\ in_flight = NoRoutine
    /\ loaded = {}
    /\ dispensing = {}

\* validateN_position(position_id, machine_x, machine_y, machine_z,
\* machine_v, current_z_height_id): the call returns its error, or None
ValidatePosition ==
    \E m \in CoordinateReadings(context.position_id, context.z_height_id) :
        Call("validateN_position", context.position_id, None, m, None,
             [Response("returned",
                       validateN_position(context.position_id, m, context.z_height_id),
                       current_state, context)
                EXCEPT !.read_position = TRUE])

NextCoordinates ==
    \/ ValidatePosition
    \/ MachineAxesHomed

SpecCoordinates == InitCoordinates /\ [][NextCoordinates]_vars

\* ------------------------------------------------------------------------
\* Properties
\* ------------------------------------------------------------------------
\* the entry points that take a move to a target position
MoveEntryPoints ==
    {"request_move", "validate_move", "validate_and_execute", "validated_move_to_well",
     "validated_move_to_scale", "validated_move_to_dispenser"}

\* the entry points that run the generic protocol for a move
GenericMoveEntryPoints == MoveEntryPoints \ {"request_move", "validate_move"}

\* the last call asked for a move to a target through one of `ops`
MoveAsked(ops) == last.op \in ops /\ last.target # None /\ last.action = None

\* the topology lets the platform go from position `current` to `target`
TransitionAllowed(current, target) ==
    /\ RegistryHas(target)
    /\ target \in PositionDescriptor(current).allowed_destinations
    /\ current \in PositionDescriptor(target).allowed_origins

\* the four context fields a failed move leaves alone
PlatformFields(ctx) ==
    <<ctx.position_id, ctx.z_height_id, ctx.active_tool_id, ctx.payload_state>>

\* C1 as stated: through every move entry point and in every state, a move
\* is accepted only if the topology allows it (target in
\* current.allowed_destinations and current in target.allowed_origins); when
\* either fails the answer is not valid=True and no execution function is
\* called.
C1_TopologyDecidesEveryMove ==
    MoveAsked(MoveEntryPoints) /\ ~TransitionAllowed(last.pre.position_id, last.target)
        => last.result # "valid" /\ ~last.invoked

\* C1 as amended: the topology decides every move outside the tool_engaged
\* state of request_move and validate_move; in tool_engaged these two check
\* target = current position instead and reject every other target.
C1_TopologyDecidesMoveOutsideEngagement ==
    MoveAsked(MoveEntryPoints) =>
        IF last.pre_state = "tool_engaged" /\ last.op \in {"request_move", "validate_move"}
        THEN last.target # last.pre.position_id => last.result = "invalid" /\ ~last.invoked
        ELSE ~TransitionAllowed(last.pre.position_id, last.target)
                 => last.result = "invalid" /\ ~last.invoked

\* a move request in idle to a target that is a destination of the current
\* position but does not list the current position among its origins
C1_RejectedOnOriginsAlone ==
    /\ MoveAsked({"request_move"})
    /\ last.pre_state = "idle"
    /\ RegistryHas(last.target)
    /\ last.target \in PositionDescriptor(last.pre.position_id).allowed_destinations
    /\ last.pre.position_id \notin PositionDescriptor(last.target).allowed_origins
    /\ last.result = "invalid"
    /\ current_state = "idle"

\* C2: in tool_engaged, a move request whose target is not the current
\* position is answered valid=False through request_move, the generic
\* protocol and validated_move_to_well/scale/dispenser; nothing is executed
\* and the position stays.
C2_EngagedToolStaysAtReadyPoint ==
    /\ MoveAsked(MoveEntryPoints \ {"validate_move"})
    /\ last.pre_state = "tool_engaged"
    /\ last.target # last.pre.position_id
    => /\ last.result = "invalid"
       /\ ~last.invoked
       /\ context.position_id = last.pre.position_id

\* the entry points that take a move or an action request
RequestEntryPoints ==
    MoveEntryPoints \cup
    {"perform_action", "validated_perform_action", "validated_home_all",
     "validated_home_manipulator", "validated_home_trickler", "validated_home_tamper",
     "validated_pickup_tool", "validated_park_tool", "validated_retrieve_piston"}

\* C3: while the state machine is moving, every move or action request is
\* answered valid=False with the already-executing reason and nothing is
\* executed.
C3_MovingRejectsEveryRequest ==
    last.op \in RequestEntryPoints \ {"validate_move"} /\ last.pre_state = "moving"
        => last.result = "invalid" /\ last.reason = "already_executing" /\ ~last.invoked

\* C4: whenever a call has returned, the state is moving exactly when a
\* pending move is recorded.
C4_PendingMoveExactlyWhileMoving ==
    (current_state = "moving") <=> (context.pending_move # None)

C6_PositionIsRegistered == RegistryHas(context.position_id)

\* a completed move has put the platform at another position
C6_MoveCompleted ==
    /\ last.op = "complete_move"
    /\ last.result = "returned"
    /\ context.position_id # last.pre.position_id
    /\ RegistryHas(context.position_id)

\* C7: no public validation or execution entry point raises; a request that
\* is not permitted is answered valid=False.
C7_EntryPointsNeverRaise ==
    last.op \in (RequestEntryPoints \ {"validate_and_execute"})
                    \cup {"request_tool_engagement", "request_tool_disengagement"}
        => last.result \in {"valid", "invalid"}

\* the mold-handling operations
MoldEntryPoints ==
    {"validated_pick_mold_from_well", "validated_place_mold_in_well",
     "validated_place_mold_on_scale", "validated_pick_mold_from_scale",
     "validated_tamp", "validated_place_top_piston"}

\* C8: while an axis is unhomed, every move and every action other than the
\* homing actions is answered valid=False and nothing is executed, through
\* every entry point and mold-handling operation.
C8_UnhomedRejectsAllButHoming ==
    /\ last.op \in (RequestEntryPoints \cup MoldEntryPoints) \ {"validate_move"}
    /\ last.unhomed # {}
    /\ last.action \notin homing_actions
    => last.result = "invalid" /\ ~last.invoked

\* the entry points that run the generic protocol
GenericEntryPoints ==
    GenericMoveEntryPoints \cup
    {"validated_home_all", "validated_home_manipulator", "validated_home_trickler",
     "validated_pickup_tool", "validated_park_tool", "validated_retrieve_piston"}

\* C9: the generic protocol calls its execution function only after the
\* live position has been checked against the current logical position; a
\* reading out of tolerance is answered valid=False and nothing is executed.
C9_LivePositionCheckedBeforeExecution ==
    last.op \in GenericEntryPoints =>
        /\ last.invoked =>
              /\ last.reading # {}
              /\ \A m \in last.reading :
                    validateN_position(last.pre.position_id, m, last.pre.z_height_id) = None
        /\ \A m \in last.reading :
              validateN_position(last.pre.position_id, m, last.pre.z_height_id) # None
                  => last.result = "invalid" /\ ~last.invoked

\* C10: a mold-handling executor routine sends commands to the hardware only
\* from the position that permits it (the ready position of the well, or the
\* scale ready position) and never while the state machine is moving.
C10_MoldRoutineOnlyAtItsPosition ==
    last.op \in MoldEntryPoints \ {"validated_place_top_piston"} /\ last.hw_sent =>
        /\ last.pre.position_id = last.target
        /\ last.pre_state # "moving"

\* the descriptor conditions under which an engagement is granted: the state
\* is idle, the position allows engagement, and its engagement requirements
\* (its general requirements when it has none) hold of the context
EngagementGranted(st, ctx) ==
    LET descriptor == PositionDescriptor(ctx.position_id)
        requirements == IF descriptor.engagement_requirements # {}
                        THEN descriptor.engagement_requirements
                        ELSE descriptor.requirements
    IN /\ st = "idle"
       /\ descriptor.allows_tool_engagement
       /\ validate_requirements(ctx, requirements) = None

\* C11: request_tool_engagement succeeds exactly when the state is idle, the
\* current position allows tool engagement and its engagement requirements
\* (the general requirements when it lists none) are satisfied; a success
\* enters tool_engaged with engaged_ready_position_id = position_id and
\* engaged_tool_id = active_tool_id, any other call returns valid=False and
\* leaves the state and both engaged fields as they were.
C11_EngagementOnlyWhereGranted ==
    last.op = "request_tool_engagement" =>
        IF EngagementGranted(last.pre_state, last.pre)
        THEN /\ last.result = "valid"
             /\ current_state = "tool_engaged"
             /\ context.engaged_ready_position_id = last.pre.position_id
             /\ context.engaged_tool_id = last.pre.active_tool_id
        ELSE /\ last.result = "invalid"
             /\ current_state = last.pre_state
             /\ context.engaged_ready_position_id = last.pre.engaged_ready_position_id
             /\ context.engaged_tool_id = last.pre.engaged_tool_id

\* an engagement granted on the general requirements of a position that
\* lists no engagement requirements
C11_EngagedOnGeneralRequirements ==
    /\ last.op = "request_tool_engagement"
    /\ last.result = "valid"
    /\ PositionDescriptor(last.pre.position_id).engagement_requirements = {}
    /\ PositionDescriptor(last.pre.position_id).requirements # {}
    /\ current_state = "tool_engaged"

\* C12: a request_tool_disengagement made in tool_engaged while the
\* engagement requirements of the engaged ready position no longer hold ends
\* in a fatal internal error (an exception), not in a valid=False answer.
C12_StaleEngagementExitIsFatal ==
    /\ last.op = "request_tool_disengagement"
    /\ last.pre_state = "tool_engaged"
    /\ assert_engagement_exit_ready_raises(last.pre)
    => last.result = "raised"

\* C13: from entering tool_engaged until leaving it no operation changes
\* context.position_id, so that position_id = engaged_ready_position_id for
\* as long as the tool is engaged.
C13_PositionFixedWhileEngaged ==
    current_state = "tool_engaged" =>
        /\ context.position_id = context.engaged_ready_position_id
        /\ last.op # "none" /\ last.pre_state = "tool_engaged"
              => context.position_id = last.pre.position_id

\* a move away from the ready point asked for, and refused, with the tool
\* engaged
C13_MoveRefusedWhileEngaged ==
    /\ current_state = "tool_engaged"
    /\ last.op = "request_move"
    /\ last.pre_state = "tool_engaged"
    /\ last.target # last.pre.position_id
    /\ last.result = "invalid"

\* the entry points that validate an action against its descriptor
\* (perform_action, request_move with an action, and the generic protocol
\* with an action_id, called directly or through a typed wrapper)
ActionEntryPoints ==
    {"perform_action", "request_move", "validate_and_execute",
     "validated_home_all", "validated_home_manipulator", "validated_home_trickler",
     "validated_pickup_tool", "validated_park_tool", "validated_retrieve_piston"}

\* an action with a position scope was asked for
ScopedActionAsked ==
    /\ last.op \in ActionEntryPoints
    /\ last.action \in ActionIds
    /\ last.op = "validate_and_execute" => last.target = None
    /\ ActionDescriptor(last.action).position_scope # {}

\* the position an action is judged at: the engaged ready position while the
\* tool is engaged, the current position otherwise
ReferencePosition(st, ctx) ==
    IF st = "tool_engaged" THEN ctx.engaged_ready_position_id ELSE ctx.position_id

\* the descriptor checks that come before the position scope pass
EngagementAndToolChecksPass(st, ctx, descriptor) ==
    /\ ~(descriptor.requires_tool_engaged /\ st # "tool_engaged")
    /\ ~(descriptor.blocked_when_engaged /\ st = "tool_engaged")
    /\ descriptor.required_tool_id # None => ctx.active_tool_id = descriptor.required_tool_id

\* C14: an action whose descriptor has a non-empty position_scope is
\* accepted only when the reference position (engaged_ready_position_id in
\* tool_engaged, position_id otherwise) is in the scope; outside the scope
\* the answer is valid=False, nothing is executed, and the scope reason lists
\* exactly the ids of the scope.
C14_ActionOnlyWithinItsScope ==
    ScopedActionAsked =>
        LET descriptor == ActionDescriptor(last.action)
            reference_position == ReferencePosition(last.pre_state, last.pre) IN
        /\ last.result = "valid" => reference_position \in descriptor.position_scope
        /\ reference_position \notin descriptor.position_scope =>
              /\ last.result = "invalid"
              /\ ~last.invoked
              /\ last.reason = "position_scope" => last.options = descriptor.position_scope
              /\ /\ last.op \in {"perform_action", "request_move"}
                 /\ EngagementAndToolChecksPass(last.pre_state, last.pre, descriptor)
                 => last.reason = "position_scope"

\* retrieve_piston, scoped to dispenser_ready_0, asked for at global_ready
\* and refused with the scope listed
C14_RetrievePistonRefusedAtGlobalReady ==
    /\ last.op = "perform_action"
    /\ last.action = "retrieve_piston"
    /\ last.pre.position_id = "global_ready"
    /\ last.result = "invalid"
    /\ last.reason = "position_scope"
    /\ last.options = {"dispenser_ready_0"}

\* the two operations that place a top piston
PistonEntryPoints == {"validated_place_top_piston", "validated_retrieve_piston"}

\* C15: the routine that places a top piston is called only when a mold is
\* carried, the mold has no top piston, it is not on the scale and the
\* dispenser holds at least one piston; with an empty dispenser the answer
\* is valid=False (the no-pistons reason, when the mold checks before it
\* pass) and the count is unchanged; a mold that has a top piston never gets
\* another, and num_pistons is never negative.
C15_PistonPlacedOnlyOnOpenCarriedMold ==
    /\ num_pistons >= 0
    /\ last.op \in PistonEntryPoints =>
          /\ last.invoked =>
                /\ last.pre.current_well # None
                /\ ~last.caps[last.pre.current_well]
                /\ ~last.pre.mold_on_scale
                /\ last.pistons >= 1
          /\ last.pistons = 0 =>
                /\ last.result = "invalid"
                /\ ~last.invoked
                /\ num_pistons = last.pistons
                /\ /\ last.pre.current_well # None
                   /\ ~last.caps[last.pre.current_well]
                   /\ last.op = "validated_retrieve_piston"
                         => last.pre.position_id = "dispenser_ready_0"
                   => last.reason = "no_pistons"
          /\ \A w \in WellIds :
                has_top_piston[w] # last.caps[w] =>
                    /\ w = last.pre.current_well
                    /\ ~last.caps[w]
                    /\ last.result = "valid"

\* a top piston placed on the carried mold
C15_TopPistonPlaced ==
    /\ last.op \in PistonEntryPoints
    /\ last.invoked
    /\ last.result = "valid"
    /\ last.pre.current_well # None
    /\ has_top_piston[last.pre.current_well]

\* C16: a piston placement that succeeds (either operation, the routine
\* having completed) returns valid=True, leaves the carried mold with
\* has_top_piston true and the dispenser with exactly one piston fewer; one
\* that does not succeed changes neither.
C16_PlacementTakesOnePiston ==
    last.op \in PistonEntryPoints =>
        IF last.result = "valid"
        THEN /\ last.invoked
             /\ has_top_piston[last.pre.current_well]
             /\ num_pistons = last.pistons - 1
        ELSE /\ has_top_piston = last.caps
             /\ num_pistons = last.pistons

\* C17: picking the mold of a well w and placing it back in w both return
\* valid=True: the pick leaves the mold carried, the place leaves
\* current_well null and mold_on_scale false, and position_id and
\* z_height_id are what they were before.
C17_PickThenPlaceRoundTrip ==
    /\ /\ last.op = "validated_pick_mold_from_well"
       /\ last.pre_state = "idle"
       /\ last.pre.current_well = None
       /\ last.pre.deck
       /\ last.pre.position_id = last.target
       /\ \E w \in WellIds : ReadyPos(w) = last.target /\ ~last.caps[w]
       => /\ last.result = "valid"
          /\ context.current_well # None
          /\ context.position_id = last.pre.position_id
          /\ context.z_height_id = last.pre.z_height_id
    /\ /\ last.op = "validated_place_mold_in_well"
       /\ last.pre_state = "idle"
       /\ last.pre.current_well # None
       /\ last.pre.deck
       /\ last.pre.position_id = last.target
       => /\ last.result = "valid"
          /\ context.current_well = None
          /\ ~context.mold_on_scale
          /\ context.position_id = last.pre.position_id
          /\ context.z_height_id = last.pre.z_height_id

\* C18: current_well goes from a mold to null only in a
\* validated_place_mold_in_well that succeeds, and from null to a mold only
\* in a validated_pick_mold_from_well that succeeds; each of the two, when
\* it succeeds, makes that change; no failed call and no other operation
\* changes whether current_well is null.
C18_CarriedMoldChangesOnlyByPickAndPlace ==
    last.op # "none" =>
        /\ (last.pre.current_well # None /\ context.current_well = None)
              <=> (last.op = "validated_place_mold_in_well" /\ last.result = "valid")
        /\ (last.pre.current_well = None /\ context.current_well # None)
              <=> (last.op = "validated_pick_mold_from_well" /\ last.result = "valid")

\* a mold still carried after a validated_place_mold_in_well that failed
C18_MoldKeptAfterFailedPlace ==
    /\ last.op = "validated_place_mold_in_well"
    /\ last.result = "invalid"
    /\ last.reason = "execution_failed"
    /\ last.pre.current_well # None
    /\ context.current_well = last.pre.current_well

\* the callers inside an executor routine
InFlight == {c \in Callers : in_flight[c] # {}}

\* C19: with two callers interleaved, a request that arrives while another
\* request's execution function is running is rejected, so that two
\* executor routines are never in flight at the same time.
C19_OneRoutineInFlight == Cardinality(InFlight) <= 1

\* C20: the generic protocol maps the outcome of the execution function
\* (returns True, returns False, returns None, raises) to the valid flag in
\* the same way for a move as for an action: a move whose execution function
\* was called ends valid exactly when an action with the same outcome would.
C20_SameOutcomeMapping ==
    last.op = "execute_move" /\ last.invoked =>
        (last.result = "valid")
            <=> (execute_action(last.pre_state, last.pre, last.outcome).result = "valid")

\* the registry permits the action in the context: the descriptor checks,
\* its requirements and its excludes all pass
ActionPermitted(st, ctx, action_id) ==
    LET descriptor == ActionDescriptor(action_id) IN
    /\ st # "moving"
    /\ EngagementAndToolChecksPass(st, ctx, descriptor)
    /\ descriptor.position_scope # {}
          => ReferencePosition(st, ctx) \in descriptor.position_scope
    /\ validate_requirements(ctx, descriptor.requirements) = None
    /\ validate_excludes(ctx, descriptor.excludes) = None

\* C21: when the registry permits home_all in the context and the homing
\* sequence completes without error, validated_home_all returns valid=True
\* and leaves position_id at the GLOBAL_READY position of the registry and
\* z_height_id at mold_transfer_safe.
C21_HomeAllEndsAtGlobalReady ==
    /\ last.op = "validated_home_all"
    /\ ActionPermitted(last.pre_state, last.pre, "home_all")
    /\ \A m \in last.reading : m = AtGlobalReadyReading
    /\ last.outcome # "raise"
    => /\ last.result = "valid"
       /\ context.position_id = FindFirstOfType("GLOBAL_READY")
       /\ context.z_height_id = "mold_transfer_safe"

\* C22: complete_move(tool_still_engaged=True) on a pending move takes the
\* state machine from moving to tool_engaged, with position_id and
\* engaged_ready_position_id both at the target of the move and pending_move
\* cleared.
C22_CompleteMoveKeepsToolEngaged ==
    /\ last.op = "complete_move"
    /\ last.action = "tool_still_engaged"
    /\ last.pre_state = "moving"
    /\ last.pre.pending_move # None
    => /\ last.result = "returned"
       /\ current_state = "tool_engaged"
       /\ context.position_id = last.pre.pending_move
       /\ context.engaged_ready_position_id = last.pre.pending_move
       /\ context.pending_move = None

\* the z-height policies a position may declare
ZHeightPolicies ==
    [allowed : SUBSET ZHeightIds, required : ZHeightIds \cup {None}]

\* ZHeightPolicy.validate accepts z exactly when the required class, if any,
\* is z and the allowed set, if not empty, holds z; a policy that constrains
\* anything answers an unset z with the not-set reason
PolicyAcceptsExactly ==
    \A policy \in ZHeightPolicies, z \in ZHeightIds \cup {None} :
        /\ ZHeightPolicy_validate(policy, z) = None
              <=> /\ policy.required = None \/ z = policy.required
                  /\ policy.allowed = {} \/ z \in policy.allowed
        /\ policy.required # None \/ policy.allowed # {}
              => ZHeightPolicy_validate(policy, None) = "z_height_not_set"

\* C23: ZHeightPolicy.validate accepts z exactly when (required is None or
\* z = required) and (allowed is empty or z is in allowed), rejecting an
\* unset z with the not-set reason whenever the policy constrains anything;
\* so a move from idle to a target with such a policy, asked for with
\* z_height_id unset, returns valid=False.
C23_UnsetZHeightRejectsMove ==
    /\ PolicyAcceptsExactly
    /\ /\ MoveAsked(MoveEntryPoints)
       /\ last.pre_state = "idle"
       /\ RegistryHas(last.target)
       /\ last.pre.z_height_id = None
       /\ PositionDescriptor(last.target).z_height_policy # NoPolicy
       => last.result = "invalid"

\* the axes of a position, in the order they are checked
Axes == <<"x", "y", "z", "v">>

\* the reading of an axis
Observed(m, axis) ==
    CASE axis = "x" -> m.X [] axis = "y" -> m.Y [] axis = "z" -> m.Z [] axis = "v" -> m.V

\* what a position declares for an axis
Declared(position_id, axis) ==
    LET coords == PositionDescriptor(position_id).coordinates IN
    CASE axis = "x" -> coords.x [] axis = "y" -> coords.y
      [] axis = "z" -> coords.z [] axis = "v" -> coords.v

\* axis i of the position declares a literal and the reading is further from
\* it than the tolerance
LiteralOutOfBand(position_id, m, i) ==
    /\ PositionDescriptor(position_id).has_coordinates
    /\ Declared(position_id, Axes[i]).kind = "literal"
    /\ Abs(Observed(m, Axes[i]) - Declared(position_id, Axes[i]).value) > CoordinateTolerance

\* axis i of the position is derived from the z-height policy and is in
\* error: no class is set, the class is unknown, or the reading is further
\* from the coordinate of the class, when that is not 0, than the tolerance
PolicyAxisInError(position_id, m, z_height_id, i) ==
    /\ PositionDescriptor(position_id).has_coordinates
    /\ Declared(position_id, Axes[i]).kind = "use_z_height_policy"
    /\ \/ z_height_id \notin ConfiguredZHeightIds
       \/ /\ ZHeightCoordinate(z_height_id) # 0
          /\ Abs(Observed(m, Axes[i]) - ZHeightCoordinate(z_height_id)) > CoordinateTolerance

\* C24: for every axis that declares a literal number, coordinate
\* validation fails, naming the axis (the first such axis in the order x,
\* y, z, v), when the reading is further from the declared value than the
\* tolerance, and passes on and inside the boundary; an axis that declares a
\* PLACEHOLDER string or nothing never makes it fail.
C24_LiteralAxesWithinTolerance ==
    last.op = "validateN_position" =>
        \A m \in last.reading :
            LET z == last.pre.z_height_id
                in_error(i) == \/ LiteralOutOfBand(last.target, m, i)
                               \/ PolicyAxisInError(last.target, m, z, i)
            IN
            /\ last.reason = None <=> \A i \in 1..4 : ~in_error(i)
            /\ \A i \in 1..4 :
                  /\ LiteralOutOfBand(last.target, m, i)
                  /\ \A j \in 1..(i - 1) : ~in_error(j)
                  => last.reason = CoordinateMismatch(Axes[i])
            /\ \A i \in 1..4 :
                  last.reason = CoordinateMismatch(Axes[i]) =>
                      Declared(last.target, Axes[i]).kind \in {"literal", "use_z_height_policy"}

\* a reading exactly on the boundary of the band of a literal axis, every
\* axis passing
C24_PassesOnTheBoundary ==
    /\ last.op = "validateN_position"
    /\ last.reason = None
    /\ \E m \in last.reading, i \in 1..4 :
          /\ Declared(last.target, Axes[i]).kind = "literal"
          /\ Abs(Observed(m, Axes[i]) - Declared(last.target, Axes[i]).value)
                = CoordinateTolerance
    /\ \E i \in 1..4 : Declared(last.target, Axes[i]).kind = "placeholder"

\* C25: at a position whose z coordinate is declared USE_Z_HEIGHT_POLICY,
\* coordinate validation fails when the context has no z-height class, and
\* the z axis passes when the coordinate configured for the active class is
\* within the tolerance of the observed z (so the validation succeeds when
\* the other axes pass too).
C25_PolicyDerivedZCoordinate ==
    /\ last.op = "validateN_position"
    /\ PositionDescriptor(last.target).has_coordinates
    /\ PositionDescriptor(last.target).coordinates.z.kind = "use_z_height_policy"
    => \A m \in last.reading :
          LET z == last.pre.z_height_id IN
          /\ z = None => last.reason # None
          /\ /\ z = None
             /\ ~LiteralOutOfBand(last.target, m, 1)
             /\ ~LiteralOutOfBand(last.target, m, 2)
             => last.reason = "requires_z_height_id"
          /\ /\ z \in ConfiguredZHeightIds
             /\ Abs(m.Z - ZHeightCoordinate(z)) <= CoordinateTolerance
             => /\ last.reason \notin {CoordinateMismatch("z"), "requires_z_height_id",
                                       "unknown_z_height_id"}
                /\ (\A i \in {1, 2, 4} : ~LiteralOutOfBand(last.target, m, i))
                      => last.reason = None

\* validation of a position with a policy-derived z refused because no
\* z-height class is set, the x and y readings being in their bands
C25_RefusedWithoutZHeightClass ==
    /\ last.op = "validateN_position"
    /\ PositionDescriptor(last.target).coordinates.z.kind = "use_z_height_policy"
    /\ last.pre.z_height_id = None
    /\ last.reason = "requires_z_height_id"

\* ------------------------------------------------------------------------
\* Loading the registry: PositionRegistry.from_config_file
\* ------------------------------------------------------------------------
\* the positions a configuration file may declare, and the type of each
ConfigPositionIds == {"global_ready", "mold_ready_A1", "mold_ready_B1"}

ConfigType(id) == IF id = "global_ready" THEN "GLOBAL_READY" ELSE "MOLD_READY"

\* the entries a configuration file may write in allowed_origins,
\* allowed_destinations and position_scope: a concrete identifier, a type
\* some files declare positions of, a type no file declares a position of
ConfigReferences == {"global_ready", "MOLD_READY", "DISPENSER_READY"}

\* json.load(handle): the files loaded declare one to three positions,
\* each with the same origins and destinations, and one action
ConfigPayloads ==
    {[positions |-> {[id |-> id, type |-> ConfigType(id),
                      allowed_origins |-> origins,
                      allowed_destinations |-> destinations] : id \in ids},
      actions |-> {[id |-> "retrieve_piston", position_scope |-> scope]}] :
        ids \in (SUBSET ConfigPositionIds) \ {{}},
        origins \in SUBSET ConfigReferences,
        destinations \in SUBSET ConfigReferences,
        scope \in SUBSET ConfigReferences}

\* first pass: type_to_ids holds a key for each type some position declares
type_to_ids(payload) ==
    [type_name \in {raw.type : raw \in payload.positions} |->
        {raw.id : raw \in {r \in payload.positions : r.type = type_name}}]

\* a second pass that rewrites nothing
expand_references_kept(refs, mapping) == refs

\* expand_references: a reference that is a key of type_to_ids becomes the
\* identifiers of that type, any other reference is kept
expand_references(refs, mapping) ==
    UNION {IF ref \in DOMAIN mapping THEN mapping[ref] ELSE {ref} : ref \in refs}

\* from_config_file: the descriptors of the registry it returns
from_config_file(payload) ==
    [positions |->
        {[identifier |-> raw.id, type |-> raw.type,
          allowed_origins |-> expand_references(raw.allowed_origins, type_to_ids(payload)),
          allowed_destinations |->
              expand_references(raw.allowed_destinations, type_to_ids(payload))] :
            raw \in payload.positions},
     actions |->
        {[identifier |-> action_cfg.id,
          position_scope |-> action_cfg.position_scope,
          requirements |-> {}, excludes |-> {},
          required_tool_id |-> None, requires_tool_engaged |-> FALSE,
          blocked_when_engaged |-> FALSE] : action_cfg \in payload.actions}]

\* before any file is loaded
InitLoad ==
    /\ current_state = "idle"
    /\ context = DefaultContext("global_ready")
    /\ has_top_piston = [w \in WellIds |-> FALSE]
    /\ num_pistons = MaxPistons
    /\ axes_homed \in AxesHomedReports
    /\ last = NoCall(context)
    /\ in_flight = NoRoutine
    /\ loaded = {}
    /\ dispensing = {}

\* PositionRegistry.from_config_file(path): the registry is loaded once,
\* when the state machine is constructed
FromConfigFile ==
    /\ ResponseTaken
    /\ loaded = {}
    /\ \E payload \in ConfigPayloads :
          loaded' = {[payload |-> payload, registry |-> from_config_file(payload)]}
    /\ UNCHANGED <<current_state, context, has_top_piston, num_pistons, axes_homed, last,
                   in_flight, dispensing>>

\* a state machine constructed over the loaded registry, with a context at
\* one of its positions, is asked for one of its actions
PerformLoadedAction ==
    /\ ResponseTaken
    /\ \E entry \in loaded :
          \E position \in entry.registry.positions, descriptor \in entry.registry.actions :
              LET resp == perform_described_action(
                              "idle", DefaultContext(position.identifier), descriptor) IN
              /\ current_state' = resp.state
              /\ context' = resp.context
              /\ last' = [CallRecord("perform_action", None, descriptor.identifier,
                                     None, None, resp)
                            EXCEPT !.pre_state = "idle",
                                   !.pre = DefaultContext(position.identifier)]
    /\ UNCHANGED <<has_top_piston, num_pistons, axes_homed, in_flight, loaded, dispensing>>

NextLoad ==
    \/ FromConfigFile
    \/ PerformLoadedAction
    \/ MachineAxesHomed

SpecLoad == InitLoad /\ [][NextLoad]_vars

\* ------------------------------------------------------------------------
\* Dispensing powder: validated_dispense_powder and the trickle loop of
\* MovementExecutor.execute_dispense_powder, one scale read or group of
\* machine commands at a time. Weights are whole hundredths of a gram
\* ------------------------------------------------------------------------
TargetWeights == {100}

\* what the scale may report: under zero after the tare, zero, half way to
\* 90% of the target, below and at 90% of it, below and at 99% of it
ScaleReadings == {-1, 0, 45, 89, 90, 98, 99}

\* Scale.get_weight: a weight, or {} when the read raises
ScaleReplies == {{}} \cup {{weight} : weight \in ScaleReadings}

\* the set-up is done, the scale raises in connect() or tare(), or the
\* machine raises on the G92 that follows the tare
SetupOutcomes == {"done", "scale_raised", "G92_raised"}

\* a feedback step: the machine takes the move and the wait, raises on the
\* move, or takes the move and raises on the M400 that follows it
TrickleOutcomes == {"done", "G1_raised", "M400_raised"}

\* a step with vibration: as a feedback step, or the machine raises on the
\* M42 that switches the vibration on or on the one that switches it off
VibrationOutcomes == TrickleOutcomes \cup {"M42_on_raised", "M42_off_raised"}

\* max_step_size, min_step_size and feedback_step_size, in hundredths of a
\* millimetre
max_step_size == 400

min_step_size == 20

feedback_step_size == 5

\* the routine at its first statement: no tare yet, no vibration command
\* sent yet, no step issued yet
DispenseStarted(target_weight) ==
    [pc |-> "setup", target_weight |-> target_weight, iteration |-> 0,
     last_reading |-> {}, previous_reading |-> {}, read_failed |-> FALSE,
     failure_at |-> {}, trickle_steps |-> 0, result |-> None,
     tares |-> 0, vibration |-> "none", vibrated |-> FALSE,
     steps_in_iteration |-> 0, step_size |-> 0]

\* the outer `except Exception`: return False
DispenseFailed(d) ==
    [d EXCEPT !.pc = "returned", !.result = "False", !.failure_at = @ \cup {d.pc}]

\* the inner `except Exception`: print, and go round the loop again
ReadErrorSwallowed(d) ==
    [d EXCEPT !.pc = "read_current", !.read_failed = TRUE, !.failure_at = @ \cup {d.pc}]

\* a reading the scale gave
ReadingTaken(d, stable, weight) ==
    [d EXCEPT !.previous_reading = d.last_reading,
              !.last_reading = {[stable |-> stable, weight |-> weight]},
              !.read_failed = FALSE]

\* 0.9 * target_weight and 0.99 * target_weight, compared without fractions
AtLeast90Percent(weight, target_weight) == 10 * weight >= 9 * target_weight

AtLeast99Percent(weight, target_weight) == 100 * weight >= 99 * target_weight

\* self._scale.connect(); self._scale.tare(); gcode("G92 W0")
scale_setup(d, outcome) ==
    IF outcome = "scale_raised" THEN DispenseFailed(d)
    ELSE IF outcome = "G92_raised" THEN DispenseFailed([d EXCEPT !.tares = @ + 1])
    ELSE [d EXCEPT !.tares = @ + 1, !.pc = "read_current"]

\* iteration += 1; the passes are counted up to MaxIterations
IterationEntered(d) ==
    [d EXCEPT !.iteration = IF @ < MaxIterations THEN @ + 1 ELSE @,
              !.steps_in_iteration = 0, !.vibrated = FALSE]

\* the branch of the pass, taken on its leading reading
PhaseChosen(d, current_weight) ==
    IF AtLeast90Percent(current_weight, d.target_weight)
    THEN [ReadingTaken(IterationEntered(d), FALSE, current_weight) EXCEPT !.pc = "trickle_fine"]
    ELSE [ReadingTaken(IterationEntered(d), FALSE, current_weight)
            EXCEPT !.pc = "trickle_coarse"]

\* a read at the top of the loop whose error is printed, the loop going on
\* to the feedback step
read_current_weight_swallowed(d, reply) ==
    IF reply = {} THEN [ReadErrorSwallowed(d) EXCEPT !.pc = "trickle_fine"]
    ELSE PhaseChosen(d, CHOOSE weight \in reply : TRUE)

\* top of the loop: current_weight = get_weight(stable=False), outside the
\* inner try
read_current_weight(d, reply) ==
    IF reply = {} THEN DispenseFailed(d)
    ELSE PhaseChosen(d, CHOOSE weight \in reply : TRUE)

\* a step of the same size at every weight
step_size_unscaled(current_weight, target_weight) == max_step_size

\* progress = max(0, current_weight / threshold_90_percent);
\* step_size = max_step_size - (max_step_size - min_step_size) * progress,
\* to the hundredth of a millimetre
step_size(current_weight, target_weight) ==
    max_step_size
        - ((max_step_size - min_step_size) * 10
               * (IF current_weight > 0 THEN current_weight ELSE 0))
          \div (9 * target_weight)

\* the G1 W move of a step has been taken by the machine; the steps of the
\* run are counted up to MaxIterations
StepIssued(d, size) ==
    [d EXCEPT !.trickle_steps = IF @ < MaxIterations THEN @ + 1 ELSE @,
              !.steps_in_iteration = @ + 1, !.step_size = size]

\* at or above 90%: gcode G1 W<feedback_step_size>, gcode M400
feedback_step(d, outcome) ==
    IF outcome = "G1_raised" THEN DispenseFailed(d)
    ELSE IF outcome = "M400_raised" THEN DispenseFailed(StepIssued(d, feedback_step_size))
    ELSE [StepIssued(d, feedback_step_size) EXCEPT !.pc = "read_unstable"]

\* below 90%: M42 switches the vibration on, G1 W<step_size>, M400, M42
\* switches the vibration off; vibration holds the last M42 sent
vibration_step(d, outcome) ==
    LET current_weight == (CHOOSE reading \in d.last_reading : TRUE).weight
        size == step_size(current_weight, d.target_weight)
        switched_on == [d EXCEPT !.vibration = "on", !.vibrated = TRUE] IN
    IF outcome = "M42_on_raised" THEN DispenseFailed(switched_on)
    ELSE IF outcome = "G1_raised" THEN DispenseFailed(switched_on)
    ELSE IF outcome = "M400_raised" THEN DispenseFailed(StepIssued(switched_on, size))
    ELSE IF outcome = "M42_off_raised"
    THEN DispenseFailed([StepIssued(switched_on, size) EXCEPT !.vibration = "off"])
    ELSE [StepIssued(switched_on, size) EXCEPT !.vibration = "off", !.pc = "read_stable"]

\* unstable_weight = get_weight(stable=False), after a feedback step
read_unstable_weight(d, reply) ==
    IF reply = {} THEN ReadErrorSwallowed(d)
    ELSE
      LET unstable_weight == CHOOSE weight \in reply : TRUE
          taken == ReadingTaken(d, FALSE, unstable_weight) IN
      IF AtLeast99Percent(unstable_weight, d.target_weight)
      THEN [taken EXCEPT !.pc = "read_final"]
      ELSE [taken EXCEPT !.pc = "read_current"]

\* a confirmation that accepts whatever the scale reports
read_final_weight_accepted(d, reply) ==
    IF reply = {} THEN ReadErrorSwallowed(d)
    ELSE [ReadingTaken(d, TRUE, CHOOSE weight \in reply : TRUE)
            EXCEPT !.pc = "returned", !.result = "True"]

\* final_weight = get_weight(stable=True): break, or continue
read_final_weight(d, reply) ==
    IF reply = {} THEN ReadErrorSwallowed(d)
    ELSE
      LET final_weight == CHOOSE weight \in reply : TRUE
          taken == ReadingTaken(d, TRUE, final_weight) IN
      IF AtLeast99Percent(final_weight, d.target_weight)
      THEN [taken EXCEPT !.pc = "returned", !.result = "True"]
      ELSE [taken EXCEPT !.pc = "read_current"]

\* weight = get_weight(stable=True), after a step with vibration; the
\* weight is printed and not used
read_stable_weight(d, reply) ==
    IF reply = {} THEN ReadErrorSwallowed(d)
    ELSE [ReadingTaken(d, TRUE, CHOOSE weight \in reply : TRUE) EXCEPT !.pc = "read_current"]

\* validated_dispense_powder once execute_dispense_powder has returned
validated_dispense_powder(st, ctx, result) ==
    [(IF result = "False" THEN Invalid("dispensing_failed", st, ctx) ELSE Valid(st, ctx))
        EXCEPT !.invoked = TRUE, !.hw_sent = TRUE]

\* a state machine at any position, and no run of the routine under way
InitDispense ==
    /\ current_state = "idle"
    /\ \E position_id \in PositionIds :
          context = [DefaultContext(position_id) EXCEPT !.deck = TRUE, !.scale = TRUE]
    /\ has_top_piston = [w \in WellIds |-> FALSE]
    /\ num_pistons = MaxPistons
    /\ axes_homed \in AxesHomedReports
    /\ last = NoCall(context)
    /\ in_flight = NoRoutine
    /\ loaded = {}
    /\ dispensing = {}

\* validated_dispense_powder away from the scale: refused, nothing is run
ValidatedDispensePowderRefused ==
    /\ context.position_id # "SCALE_READY"
    /\ \A d \in dispensing : d.pc = "idle"
    /\ Call("validated_dispense_powder", None, None, None, None,
            Invalid("not_at_scale", current_state, context))

\* validated_dispense_powder at the scale: execute_dispense_powder is called
ExecuteDispensePowderCalled ==
    /\ ResponseTaken
    /\ context.position_id = "SCALE_READY"
    /\ \A d \in dispensing : d.pc = "idle"
    /\ \E target_weight \in TargetWeights : dispensing' = {DispenseStarted(target_weight)}
    /\ UNCHANGED <<current_state, context, has_top_piston, num_pistons, axes_homed, last,
                   in_flight, loaded>>

\* the routine takes one step from its place `pc`
DispenseStep(pc, next(_)) ==
    /\ \E d \in dispensing :
          /\ d.pc = pc
          /\ dispensing' = {next(d)}
    /\ UNCHANGED <<current_state, context, has_top_piston, num_pistons, axes_homed, last,
                   in_flight, loaded>>

\* the routine is at its place `pc`
DispenseAt(pc) == \E d \in dispensing : d.pc = pc

ScaleSetup ==
    /\ DispenseAt("setup")
    /\ \E outcome \in SetupOutcomes :
          LET next(d) == scale_setup(d, outcome) IN DispenseStep("setup", next)

ReadCurrentWeight ==
    /\ DispenseAt("read_current")
    /\ \E reply \in ScaleReplies :
          LET next(d) == read_current_weight(d, reply) IN DispenseStep("read_current", next)

TrickleFine ==
    /\ DispenseAt("trickle_fine")
    /\ \E outcome \in TrickleOutcomes :
          LET next(d) == feedback_step(d, outcome) IN DispenseStep("trickle_fine", next)

ReadUnstableWeight ==
    /\ DispenseAt("read_unstable")
    /\ \E reply \in ScaleReplies :
          LET next(d) == read_unstable_weight(d, reply) IN DispenseStep("read_unstable", next)

ReadFinalWeight ==
    /\ DispenseAt("read_final")
    /\ \E reply \in ScaleReplies :
          LET next(d) == read_final_weight(d, reply) IN DispenseStep("read_final", next)

TrickleCoarse ==
    /\ DispenseAt("trickle_coarse")
    /\ \E outcome \in VibrationOutcomes :
          LET next(d) == vibration_step(d, outcome) IN DispenseStep("trickle_coarse", next)

ReadStableWeight ==
    /\ DispenseAt("read_stable")
    /\ \E reply \in ScaleReplies :
          LET next(d) == read_stable_weight(d, reply) IN DispenseStep("read_stable", next)

\* execute_dispense_powder returns and validated_dispense_powder answers
ValidatedDispensePowderReturns ==
    /\ ResponseTaken
    /\ \E d \in dispensing :
          /\ d.pc = "returned"
          /\ dispensing' = {[d EXCEPT !.pc = "idle"]}
          /\ last' = CallRecord("validated_dispense_powder", None, None, None, d.result,
                                validated_dispense_powder(current_state, context, d.result))
    /\ UNCHANGED <<current_state, context, has_top_piston, num_pistons, axes_homed,
                   in_flight, loaded>>

NextDispense ==
    \/ ValidatedDispensePowderRefused
    \/ ExecuteDispensePowderCalled
    \/ ScaleSetup
    \/ ReadCurrentWeight
    \/ TrickleFine
    \/ ReadUnstableWeight
    \/ ReadFinalWeight
    \/ TrickleCoarse
    \/ ReadStableWeight
    \/ ValidatedDispensePowderReturns
    \/ MachineAxesHomed

SpecDispense == InitDispense /\ [][NextDispense]_vars

\* the thread inside the routine keeps running: a read of the scale and a
\* command to the machine come back, and the routine's return is taken
DispenseProgress ==
    /\ WF_vars(ScaleSetup)
    /\ WF_vars(ReadCurrentWeight)
    /\ WF_vars(TrickleFine)
    /\ WF_vars(ReadUnstableWeight)
    /\ WF_vars(ReadFinalWeight)
    /\ WF_vars(TrickleCoarse)
    /\ WF_vars(ReadStableWeight)

SpecDispenseRunning == InitDispense /\ [][NextDispense]_vars /\ DispenseProgress

\* ------------------------------------------------------------------------
\* update_context called with any combination of its keyword arguments,
\* between moves and tool engagements
\* ------------------------------------------------------------------------
ToolPoses == {"gripper_down"}

\* the keyword arguments of a call: each one a value, or None when left out
UpdateKeywords ==
    [active_tool_id : ToolIds \cup {None},
     payload_state : PayloadStates \cup {None},
     tool_pose : ToolPoses \cup {None},
     z_height_id : ZHeightIds \cup {None}]

\* update_context(...): the record of the call keeps its arguments
UpdateContextFields ==
    /\ ResponseTaken
    /\ \E args \in UpdateKeywords :
          LET resp == Response("returned", None, current_state,
                               update_context(context, args.active_tool_id,
                                              args.payload_state, args.tool_pose,
                                              args.z_height_id)) IN
          /\ current_state' = resp.state
          /\ context' = resp.context
          /\ last' = [CallRecord("update_context", None, None, None, None, resp)
                        EXCEPT !.arguments = {args}]
    /\ UNCHANGED <<has_top_piston, num_pistons, axes_homed, in_flight, loaded, dispensing>>

NextContext ==
    \/ UpdateContextFields
    \/ RequestMove
    \/ CompleteMove
    \/ AbortMotion
    \/ RequestToolEngagement
    \/ RequestToolDisengagement
    \/ MachineAxesHomed

SpecContext == Init /\ [][NextContext]_vars

\* the names of the PositionType enum
PositionTypes == {"GLOBAL_READY", "MOLD_READY", "DISPENSER_READY", "SCALE_READY"}

\* the identifiers of the positions a file declares with a type
IdsOfType(payload, type_name) ==
    {raw.id : raw \in {r \in payload.positions : r.type = type_name}}

\* a set of references with each one of `type_names` replaced by the
\* identifiers of that type and every other one kept
Replaced(payload, refs, type_names) ==
    UNION {IdsOfType(payload, ref) : ref \in refs \cap type_names}
        \cup (refs \ type_names)

\* the origins and destinations of every loaded position are the declared
\* ones with the references in type_names(payload) replaced
LoadedAsReplaced(type_names(_)) ==
    \A entry \in loaded :
        \A raw \in entry.payload.positions :
            \E position \in entry.registry.positions :
                /\ position.identifier = raw.id
                /\ position.allowed_origins =
                       Replaced(entry.payload, raw.allowed_origins, type_names(entry.payload))
                /\ position.allowed_destinations =
                       Replaced(entry.payload, raw.allowed_destinations,
                                type_names(entry.payload))

EveryPositionType(payload) == PositionTypes

TypesWithPositions(payload) == {raw.type : raw \in payload.positions}

C27_ScopeTypeNamesReplaced ==
    /\ \A entry \in loaded :
          \A action_cfg \in entry.payload.actions :
              \E descriptor \in entry.registry.actions :
                  /\ descriptor.identifier = action_cfg.id
                  /\ descriptor.position_scope =
                         Replaced(entry.payload, action_cfg.position_scope,
                                  TypesWithPositions(entry.payload))
    /\ \A entry \in loaded :
          (/\ last.op = "perform_action"
           /\ \E action_cfg \in entry.payload.actions :
                 /\ action_cfg.id = last.action
                 /\ \E raw \in entry.payload.positions :
                       /\ raw.id = last.pre.position_id
                       /\ raw.type \in action_cfg.position_scope)
              => last.reason # "position_scope"

\* the last reading of run d was a stable one, taken right after an
\* unstable one of at least 99% of the target
ConfirmationRead(d) ==
    /\ \E final \in d.last_reading : final.stable
    /\ \E unstable \in d.previous_reading :
          ~unstable.stable /\ 100 * unstable.weight >= 99 * d.target_weight

\* C28: execute_dispense_powder returns True only when its last scale
\* reading was a stable one of at least 99% of the target taken after an
\* unstable one of at least 99% of the target; when that stable reading is
\* below 99% of the target the routine has not returned and is back at the
\* read at the top of the trickle loop
C28_ReturnsTrueOnlyOnConfirmedWeight ==
    \A d \in dispensing :
        /\ d.result = "True" =>
              /\ ConfirmationRead(d)
              /\ \E final \in d.last_reading : 100 * final.weight >= 99 * d.target_weight
        /\ (/\ ConfirmationRead(d)
            /\ \E final \in d.last_reading : 100 * final.weight < 99 * d.target_weight
            /\ "read_current" \notin d.failure_at)
              => d.pc = "read_current" /\ d.result = None

\* a run returned True on a stable reading of exactly 99% of the target,
\* in its second or a later pass of the loop
C28_ConfirmedAtTheThreshold ==
    \E d \in dispensing :
        /\ d.result = "True"
        /\ d.iteration >= 2
        /\ d.last_reading = {[stable |-> TRUE, weight |-> 99]}

\* validated_dispense_powder answered valid=False for every run in which
\* one of the failures `places` happened
AnsweredInvalid(places) ==
    (/\ last.op = "validated_dispense_powder"
     /\ last.invoked
     /\ \E d \in dispensing : d.failure_at \cap places # {})
        => last.result = "invalid"

\* C29 as stated: once a scale read or a machine command has failed during
\* execute_dispense_powder the routine has stopped and returned False, and
\* validated_dispense_powder returns valid=False
C29_AnyFailureEndsTheRun ==
    /\ \A d \in dispensing : d.failure_at # {} => d.result = "False"
    /\ AnsweredInvalid({"setup", "read_current", "trickle_fine", "read_unstable",
                        "read_final", "trickle_coarse", "read_stable"})

\* C29, amended: a failure of the scale set-up, of the reading at the top of
\* the loop or of a machine command ends the run with False, and
\* validated_dispense_powder returns valid=False; a failure of a reading
\* taken after a trickle step is not surfaced: the routine goes back to the
\* reading at the top of the loop, and a trickle step is issued only right
\* after a reading that succeeded
C29_FailuresOutsideTheInnerTryEndTheRun ==
    /\ \A d \in dispensing :
          /\ d.failure_at \cap {"setup", "read_current", "trickle_fine", "trickle_coarse"} # {}
                => d.result = "False" /\ d.pc \in {"returned", "idle"}
          /\ d.read_failed => d.pc = "read_current" \/ d.result = "False"
          /\ d.pc \in {"trickle_fine", "trickle_coarse"} => ~d.read_failed
    /\ AnsweredInvalid({"setup", "read_current", "trickle_fine", "trickle_coarse"})

\* a run in which a reading after a feedback step failed and was passed
\* over, and the reading at the top of the loop failed later:
\* validated_dispense_powder answered valid=False
C29_SwallowedThenSurfaced ==
    /\ last.op = "validated_dispense_powder"
    /\ last.result = "invalid"
    /\ \E d \in dispensing :
          /\ {"read_unstable", "read_current"} \subseteq d.failure_at
          /\ d.trickle_steps >= 1


\* C30: update_context overwrites each of active_tool_id, payload_state,
\* tool_pose and z_height_id with its argument when the argument is not
\* None and leaves it as it was when the argument is None, and it changes
\* nothing else: not position_id, not the state of the state machine, not
\* pending_move, not the engaged fields
C30_UpdateContextPatches ==
    last.op = "update_context" =>
        \A args \in last.arguments :
            /\ context.active_tool_id =
                   IF args.active_tool_id = None THEN last.pre.active_tool_id
                   ELSE args.active_tool_id
            /\ context.payload_state =
                   IF args.payload_state = None THEN last.pre.payload_state
                   ELSE args.payload_state
            /\ context.tool_pose =
                   IF args.tool_pose = None THEN last.pre.tool_pose ELSE args.tool_pose
            /\ context.z_height_id =
                   IF args.z_height_id = None THEN last.pre.z_height_id
                   ELSE args.z_height_id
            /\ context.position_id = last.pre.position_id
            /\ context.pending_move = last.pre.pending_move
            /\ context.engaged_ready_position_id = last.pre.engaged_ready_position_id
            /\ context.engaged_tool_id = last.pre.engaged_tool_id
            /\ current_state = last.pre_state

\* update_context was called during a move with a tool pose and no
\* z_height_id while a z-height was set: the z-height and the pending move
\* are as before
C30_PatchedDuringMove ==
    /\ last.op = "update_context"
    /\ last.pre_state = "moving"
    /\ last.pre.pending_move # None
    /\ last.pre.z_height_id # None
    /\ \E args \in last.arguments : args.z_height_id = None /\ args.tool_pose # None
    /\ context.z_height_id = last.pre.z_height_id
    /\ context.tool_pose # None

\* C31: when step 7 of the generic move protocol starts a move from idle,
\* the state machine is out of the moving state when the call returns and
\* pending_move is None; when the call answers valid=True the state is idle
\* at the target; when the execution function raised, abort_motion brought
\* the state back to idle, the position is as before and the answer is
\* valid=False
C31_StartedMoveLeavesMoving ==
    (last.op = "execute_move" /\ last.pre_state = "idle") =>
        /\ current_state = "idle"
        /\ context.pending_move = None
        /\ last.result = "valid" => context.position_id = last.target
        /\ last.outcome = "raise" =>
              last.result = "invalid" /\ context.position_id = last.pre.position_id

\* the execution function of a move from idle to another position raised
C31_AbortedAfterException ==
    /\ last.op = "execute_move"
    /\ last.pre_state = "idle"
    /\ last.outcome = "raise"
    /\ last.target # last.pre.position_id
    /\ current_state = "idle"
    /\ last.result = "invalid"

\* an action the registry knows was asked for through one of the entry
\* points that validate it against its descriptor
KnownActionAsked ==
    /\ last.op \in ActionEntryPoints
    /\ last.action \in ActionIds
    /\ last.op = "validate_and_execute" => last.target = None

\* C32: an action with requires_tool_engaged is accepted only in
\* tool_engaged, an action with blocked_when_engaged is never accepted in
\* tool_engaged, and an action with a required_tool_id is accepted only
\* when active_tool_id equals it; an action refused on one of these grounds
\* gets valid=False, its execution function is not called, and the state of
\* the state machine and position_id are as before
C32_EngagementAndToolRulesOfActions ==
    KnownActionAsked =>
        LET descriptor == ActionDescriptor(last.action) IN
        /\ last.result = "valid" =>
              /\ descriptor.requires_tool_engaged => last.pre_state = "tool_engaged"
              /\ descriptor.blocked_when_engaged => last.pre_state # "tool_engaged"
              /\ descriptor.required_tool_id # None =>
                    last.pre.active_tool_id = descriptor.required_tool_id
        /\ ~EngagementAndToolChecksPass(last.pre_state, last.pre, descriptor) =>
              /\ last.result = "invalid"
              /\ ~last.invoked
              /\ current_state = last.pre_state
              /\ context.position_id = last.pre.position_id

\* trickler_dispense, which requires the tool engaged, asked for in idle at
\* its scope position and refused
C32_TricklerDispenseRefusedInIdle ==
    /\ last.op = "perform_action"
    /\ last.action = "trickler_dispense"
    /\ last.pre_state = "idle"
    /\ last.pre.position_id = "SCALE_READY"
    /\ last.result = "invalid"
    /\ last.reason = "requires_tool_engaged"

\* C33: at a position whose z coordinate is declared USE_Z_HEIGHT_POLICY,
\* with a configured z-height class active, the observed z is compared
\* with the z_coordinate of the class whatever its value, 0 included: a
\* reading further from it than the tolerance fails validation
C33_PolicyCoordinateComparedAtEveryValue ==
    /\ last.op = "validateN_position"
    /\ PositionDescriptor(last.target).has_coordinates
    /\ PositionDescriptor(last.target).coordinates.z.kind = "use_z_height_policy"
    /\ last.pre.z_height_id \in ConfiguredZHeightIds
    => \A m \in last.reading :
          Abs(m.Z - ZHeightCoordinate(last.pre.z_height_id)) > CoordinateTolerance
              => last.reason # None

\* the leading reading of the pass run d is in
LeadingWeight(d) == (CHOOSE reading \in d.last_reading : TRUE).weight

\* C34: execute_dispense_powder tares the scale once, before its first
\* reading; each pass takes its branch from its leading unstable reading;
\* at or above 90% of the target the pass issues one step of the fixed
\* feedback size and sends no vibration command; below 90% it issues one
\* step whose size lies between the minimum and the maximum, is the
\* maximum at a weight of 0 or less and shrinks linearly with the weight,
\* with the vibration switched on before the step and off after it, and
\* then reads a stable weight
C34_TareOnceAndPhaseFromLeadingReading ==
    \A d \in dispensing :
        /\ d.tares <= 1
        /\ d.last_reading # {} => d.tares = 1
        /\ d.pc \in {"trickle_fine", "trickle_coarse"} =>
              /\ \A reading \in d.last_reading : ~reading.stable
              /\ d.steps_in_iteration = 0
              /\ d.pc = "trickle_fine" <=> 10 * LeadingWeight(d) >= 9 * d.target_weight
        /\ d.pc \in {"read_unstable", "read_final"} =>
              /\ d.steps_in_iteration = 1
              /\ ~d.vibrated
              /\ d.pc = "read_unstable" => d.step_size = feedback_step_size
        /\ d.pc = "read_stable" =>
              /\ d.steps_in_iteration = 1
              /\ d.vibrated /\ d.vibration = "off"
              /\ min_step_size <= d.step_size /\ d.step_size <= max_step_size
              /\ LeadingWeight(d) <= 0 => d.step_size = max_step_size
              /\ LeadingWeight(d) > 0 =>
                    /\ (max_step_size - d.step_size) * 9 * d.target_weight
                          <= (max_step_size - min_step_size) * 10 * LeadingWeight(d)
                    /\ (max_step_size - min_step_size) * 10 * LeadingWeight(d)
                          < (max_step_size - d.step_size + 1) * 9 * d.target_weight
        /\ (/\ d.pc = "read_current"
            /\ \E reading \in d.last_reading : reading.stable
            /\ \E reading \in d.previous_reading :
                  ~reading.stable /\ 10 * reading.weight < 9 * d.target_weight)
              => d.vibrated /\ d.steps_in_iteration = 1

\* a pass below 90% has issued its step, half way to the 90% mark: the step
\* is half way between the maximum and the minimum and the vibration is off
C34_CoarseStepHalfWay ==
    \E d \in dispensing :
        /\ d.pc = "read_stable"
        /\ LeadingWeight(d) = 45
        /\ d.step_size = 210
        /\ d.vibration = "off"

\* C39: whenever execute_dispense_powder has returned, with True or with
\* False, the last vibration command sent is not the one that switches the
\* vibration on
C39_VibrationOffOnReturn ==
    \A d \in dispensing : d.result # None => d.vibration # "on"

\* C40: every call of execute_dispense_powder returns: a run that has
\* started comes, whatever the scale reads, to its return of True or False
C40_EveryRunReturns ==
    (\E d \in dispensing : d.pc = "setup") ~> (\E d \in dispensing : d.result # None)

\* the wrappers that hand a move to _validate_and_execute_move themselves
MoveWrappers ==
    {"validated_move_to_well", "validated_move_to_scale", "validated_move_to_dispenser"}

\* a wrapper was called while a requested move was pending, and did not
\* answer valid
WrapperRefusedDuringMove ==
    /\ last.op \in MoveWrappers
    /\ last.pre_state = "moving"
    /\ last.pre.pending_move # None
    /\ last.result # "valid"

MoldOnScaleCarriedUncapped ==
    context.mold_on_scale
        => context.current_well # None /\ ~CarriedMoldCapped(context, has_top_piston)

\* C36: mold_on_scale implies that a mold is carried and that it has no
\* top piston, and no validated mold operation leads from a state where
\* this holds to a mold on the scale with no carried mold or to a capped
\* mold on the scale
C36_MoldOnScaleStaysCarriedUncapped ==
    [][MoldOnScaleCarriedUncapped => MoldOnScaleCarriedUncapped']_vars

\* C36 witness: with an uncapped carried mold on the scale and a piston in
\* the dispenser, validated_place_top_piston was asked and refused
C36_CappingOnScaleRefused ==
    /\ last.op = "validated_place_top_piston"
    /\ last.pre.mold_on_scale
    /\ last.reason = "on_scale"
    /\ context.mold_on_scale
    /\ context.current_well # None
    /\ ~CarriedMoldCapped(context, has_top_piston)

C38_EngagedExactlyWhenReadyPositionSet ==
    /\ current_state = "tool_engaged" <=> context.engaged_ready_position_id # None
    /\ context.engaged_ready_position_id # None
          => /\ RegistryHas(context.engaged_ready_position_id)
             /\ PositionDescriptor(context.engaged_ready_position_id).allows_tool_engagement

====
